---- MODULE Spec2Model ----
(***************************************************************************)
(* Model of the review pipeline of ai-pr-reviewer: the stage sequencer     *)
(* AgentOrchestrator.run (src/agents/orchestrator.py) with its stage       *)
(* handlers, the critic pipeline it calls (src/agents/critic.py) and the   *)
(* posting boundary (src/agents/commenter.py).                             *)
(*                                                                         *)
(* Python's 0-based index idx into _PIPELINE is 1-based here.  An optional *)
(* value (X | None) is a sequence of length at most one: None is << >>.    *)
(* The wall clock is abstracted to the value of TimeBudget.expired, which  *)
(* turns from FALSE to TRUE once and stays TRUE.                           *)
(***************************************************************************)
EXTENDS Integers, Sequences, FiniteSets, TLC

\* ------------------------------------------------------------------ bounds
MaxIssues == 2      \* longest findings list the reviewer returns
MaxFindings == 3    \* longest findings list handed to the critic on its own
MaxHunkLines == 3   \* most raw lines in one hunk
MaxChunkLines == 2  \* largest max_lines handed to chunk_file_diff

\* ------------------------------------------------------- program constants
max_retries == 2        \* orchestrator.py:100  max_retries_per_state
max_comments == 20      \* orchestrator.py:103  max_comments
nit_threshold == 3      \* orchestrator.py:123  nit_threshold
max_inline == 20        \* commenter.py:35      max_inline_comments

min_severity == "info"          \* critic.py:34
nit_consolidation == TRUE       \* orchestrator.py:122

\* ------------------------------------------------------------------ states
State ==
  {"PLAN", "GATHER_DIFF", "RUN_LINTERS", "REVIEW_CHUNKS", "CRITIQUE_VALIDATE",
   "POST_COMMENTS", "SUMMARIZE", "DONE", "SELF_HEAL_RETRY", "FAIL_GRACEFULLY"}

_PIPELINE_reordered ==
  <<"PLAN", "GATHER_DIFF", "REVIEW_CHUNKS", "RUN_LINTERS", "CRITIQUE_VALIDATE",
    "POST_COMMENTS", "SUMMARIZE", "DONE">>

_PIPELINE ==
  <<"PLAN", "GATHER_DIFF", "RUN_LINTERS", "REVIEW_CHUNKS", "CRITIQUE_VALIDATE",
    "POST_COMMENTS", "SUMMARIZE", "DONE">>

RECURSIVE IndexOf(_, _, _)
IndexOf(seq, x, i) ==
  IF i > Len(seq) THEN 0
  ELSE IF seq[i] = x THEN i ELSE IndexOf(seq, x, i + 1)

\* _PIPELINE.index(state), 1-based
PipelineIndex(state) == IndexOf(_PIPELINE, state, 1)

None == << >>
Some(x) == <<x>>

\* ---------------------------------------------------------------- findings
NoValue == "<none>"

\* a JSON number where a text is expected (validate_issue does not look at
\* the type of "suggestion")
JsonNumber == "<number>"

SEVERITY_RANK == [error |-> 0, warn |-> 1, info |-> 2]

\* A finding as the reviewer returns it: no "_hash" key yet.
Finding(file, line, severity, message) ==
  [file |-> file, line |-> line, severity |-> severity, category |-> "review",
   message |-> message, suggestion |-> NoValue, _hash |-> NoValue,
   _consolidated |-> FALSE]

\* The findings a review can return, in the order it returns them: each
\* finding is reported twice in a row (once by the prescan, once by the
\* external reviewer), and the severities vary with the line.
Reported(k) ==
  LET line == (k + 1) \div 2
  IN  Finding("a.py", line, <<"info", "error", "warn">>[((line - 1) % 3) + 1], "m")

\* What reviewer.review_plan can return as all_issues: the first n findings
ReviewOutputs == {[k \in 1..n |-> Reported(k)] : n \in 0..MaxIssues}

\* ------------------------------------------- the tools, each on its own
VARIABLES
  line_maps,          \* build_line_map / get_diff_position_map: argument and maps built
  scan,               \* the prescan of one chunk: its text, start line and findings
  planning,           \* PlannerAgent.plan: its configuration, files and the plan
  parsing,            \* parse_unified_diff: the input lines and its locals
  review_call,        \* LLMClient.review_chunk: responses received and what it returned
  review_run,         \* ReviewerAgent.review_plan: findings gathered and its summary
  posting,            \* two runs posting to one pull request, and its comments
  resolving,          \* CommentManager._resolve_position: its arguments and what it returned
  graph,              \* build_review_graph: the graph's ReviewState, node and call log
  post_stage          \* POST_COMMENTS of one run: post_results, its retries and the failure notice

tools_state ==
  <<line_maps, scan, planning, parsing, review_call, review_run, posting,
    resolving,
    graph,
    post_stage>>

\* no tool has been called on its own
ToolsIdle ==
  /\ line_maps = << >>
  /\ scan = << >>
  /\ planning = << >>
  /\ parsing = << >>
  /\ review_call = << >>
  /\ review_run = << >>
  /\ posting = << >>
  /\ resolving = << >>
  /\ graph = << >>
  /\ post_stage = << >>

\* ------------------------------------------------------------- the critic
VARIABLES
  critic_policy,      \* CriticAgent's min_severity, max_comments, nit_consolidation, nit_threshold
  critic_pending,     \* the findings list a caller is about to hand to critique()
  critic_call,        \* argument and locals of the last critique() call
  critic_previous,    \* what the call before the last returned, if there was one
  contradictions,     \* what detect_contradictions returned last
  critic_pc           \* "idle", "ready", "critiqued", "detected", "raised"

critic_state ==
  <<critic_policy, critic_pending, critic_call, critic_previous, contradictions, critic_pc>>

\* ------------------------------------------------------------ the chunker
VARIABLES
  fd,                 \* chunk_file_diff's argument fd
  max_lines,          \* chunk_file_diff's argument max_lines
  chunks,             \* its local list chunks
  hunk_no,            \* which hunk of fd.hunks the outer loop is at (1-based)
  seg_from,           \* the inner loop's i + 1
  chunk_pc            \* "idle", "loop", "done"

chunker_state == <<fd, max_lines, chunks, hunk_no, seg_from, chunk_pc>>

\* no chunking under way (max_lines is the planner's default chunk_max_lines)
ChunkerIdle ==
  /\ fd = [filename |-> "", hunks |-> <<>>]
  /\ max_lines = 300
  /\ chunks = <<>>
  /\ hunk_no = 1
  /\ seg_from = 1
  /\ chunk_pc = "idle"

severity_key(issue) ==
  IF issue.severity \in DOMAIN SEVERITY_RANK THEN SEVERITY_RANK[issue.severity] ELSE 99

\* stable_hash: the truncated SHA-256 of the payload f"{file}:{line}:{message}",
\* taken to be collision free on the payloads of the model, so the payload
\* stands for its digest.
stable_hash(file, line, message) == file \o ":" \o ToString(line) \o ":" \o message

FilterSeq(seq, Keep(_)) ==
  LET F[i \in 0..Len(seq)] ==
        IF i = 0 THEN <<>>
        ELSE IF Keep(seq[i]) THEN Append(F[i - 1], seq[i]) ELSE F[i - 1]
  IN  F[Len(seq)]

_filter_severity(issues) ==
  LET min_rank == IF critic_policy.min_severity \in DOMAIN SEVERITY_RANK
                  THEN SEVERITY_RANK[critic_policy.min_severity] ELSE 2
      Keep(i) == severity_key(i) <= min_rank
  IN  FilterSeq(issues, Keep)

HashOf(iss) == stable_hash(iss.file, iss.line, iss.message)

_deduplicate_keeps_last(issues) ==
  LET D[i \in 0..Len(issues)] ==
        IF i = 0 THEN <<>>
        ELSE IF \E j \in (i + 1)..Len(issues) : HashOf(issues[j]) = HashOf(issues[i])
             THEN D[i - 1]
             ELSE Append(D[i - 1], [issues[i] EXCEPT !._hash = HashOf(issues[i])])
  IN  D[Len(issues)]

_deduplicate(issues) ==
  LET D[i \in 0..Len(issues)] ==
        IF i = 0 THEN <<>>
        ELSE IF \E j \in 1..(i - 1) : HashOf(issues[j]) = HashOf(issues[i])
             THEN D[i - 1]
             ELSE Append(D[i - 1], [issues[i] EXCEPT !._hash = HashOf(issues[i])])
  IN  D[Len(issues)]

_sort_by_severity_reversed(issues) ==
  LET WithKey(k) == LET Keep(i) == severity_key(i) = k IN FilterSeq(issues, Keep)
  IN  WithKey(99) \o WithKey(2) \o WithKey(1) \o WithKey(0)

\* sorted(issues, key=severity_key): stable
_sort_by_severity(issues) ==
  LET WithKey(k) == LET Keep(i) == severity_key(i) = k IN FilterSeq(issues, Keep)
  IN  WithKey(0) \o WithKey(1) \o WithKey(2) \o WithKey(99)

_apply_budget_off_by_one(issues) ==
  IF Len(issues) <= critic_policy.max_comments THEN issues
  ELSE SubSeq(issues, 1, critic_policy.max_comments - 1)

_apply_budget(issues) ==
  IF Len(issues) <= critic_policy.max_comments THEN issues
  ELSE SubSeq(issues, 1, critic_policy.max_comments)

\* Files in the order of their first info finding (dict insertion order)
NitFiles(issues) ==
  LET F[i \in 0..Len(issues)] ==
        IF i = 0 THEN <<>>
        ELSE IF issues[i].severity = "info"
                /\ ~ \E j \in 1..Len(F[i - 1]) : F[i - 1][j] = issues[i].file
             THEN Append(F[i - 1], issues[i].file)
             ELSE F[i - 1]
  IN  F[Len(issues)]

\* f"**{len(nits)} minor suggestions:**\n" + "\n".join(f"- L{line}: {message}" ...)
NitMessage(nits) ==
  LET Bullet(n) == "- L" \o ToString(n.line) \o ": " \o n.message
      J[k \in 1..Len(nits)] ==
        IF k = 1 THEN Bullet(nits[1]) ELSE J[k - 1] \o "\n" \o Bullet(nits[k])
  IN  "**" \o ToString(Len(nits)) \o " minor suggestions:**\n" \o J[Len(nits)]

AtThreshold_strict(nits) == Len(nits) > critic_policy.nit_threshold

\* if len(nits) >= self.nit_threshold
AtThreshold(nits) == Len(nits) >= critic_policy.nit_threshold

_consolidate_nits(issues) ==
  IF ~ critic_policy.nit_consolidation THEN issues
  ELSE
    LET IsNonNit(i) == i.severity # "info"
        non_nits == FilterSeq(issues, IsNonNit)
        files == NitFiles(issues)
        NitsOf(fname) ==
          LET Keep(i) == i.severity = "info" /\ i.file = fname
          IN  FilterSeq(issues, Keep)
        Group(fname) ==
          LET nits == NitsOf(fname)
          IN  IF AtThreshold(nits)
              THEN << [file |-> fname, line |-> nits[1].line, severity |-> "info",
                       category |-> "nits", message |-> NitMessage(nits),
                       suggestion |-> NoValue,
                       _hash |-> stable_hash(fname, 0, "nit-group-" \o ToString(Len(nits))),
                       _consolidated |-> TRUE] >>
              ELSE nits
        C[k \in 0..Len(files)] ==
          IF k = 0 THEN non_nits ELSE C[k - 1] \o Group(files[k])
    IN  C[Len(files)]

\* F applied to the value of x
Then(x, F(_)) == CHOOSE y \in {F(v) : v \in {x}} : TRUE

\* filter -> dedupe -> sort -> budget -> nit-merge
critique(issues) ==
  LET filtered == Then(issues, _filter_severity)
      deduped == Then(filtered, _deduplicate)
      sorted_issues == Then(deduped, _sort_by_severity)
      budgeted == Then(sorted_issues, _apply_budget)
  IN  Then(budgeted, _consolidate_nits)

\* the locals of one critique() call
critique_locals(issues) ==
  LET filtered == Then(issues, _filter_severity)
      deduped == Then(filtered, _deduplicate)
      sorted_issues == Then(deduped, _sort_by_severity)
      budgeted == Then(sorted_issues, _apply_budget)
  IN  [issues |-> issues, filtered |-> filtered, deduped |-> deduped,
       sorted_issues |-> sorted_issues, budgeted |-> budgeted,
       final |-> Then(budgeted, _consolidate_nits)]

\* _deduplicate writes "_hash" into the dicts it keeps, and those dicts are
\* the elements of the list it was given: the caller's list after critique.
HashesAttached(issues) ==
  LET min_rank == IF critic_policy.min_severity \in DOMAIN SEVERITY_RANK
                  THEN SEVERITY_RANK[critic_policy.min_severity] ELSE 2
      Kept(i) ==
        /\ severity_key(issues[i]) <= min_rank
        /\ ~ \E j \in 1..(i - 1) :
               /\ severity_key(issues[j]) <= min_rank
               /\ HashOf(issues[j]) = HashOf(issues[i])
  IN  [i \in 1..Len(issues) |->
         IF Kept(i) THEN [issues[i] EXCEPT !._hash = HashOf(issues[i])] ELSE issues[i]]

\* str.strip() and str.lower() on a text held as a sequence of characters
RECURSIVE lstrip(_)
lstrip(text) ==
  IF text # <<>> /\ Head(text) = " " THEN lstrip(Tail(text)) ELSE text

RECURSIVE rstrip(_)
rstrip(text) ==
  IF text # <<>> /\ text[Len(text)] = " " THEN rstrip(SubSeq(text, 1, Len(text) - 1))
  ELSE text

strip(text) == rstrip(lstrip(text))

lower(text) ==
  [k \in 1..Len(text) |->
     IF text[k] = "X" THEN "x" ELSE IF text[k] = "Y" THEN "y" ELSE text[k]]

\* (iss.get("suggestion") or "").strip().lower()
NormalSuggestion(iss) ==
  lower(strip(IF iss.suggestion = NoValue THEN <<>> ELSE iss.suggestion))

\* .strip() on a value that is truthy and not a str raises AttributeError
StripRaises(iss) == iss.suggestion = JsonNumber

\* f"{file}:{line}"
Location(iss) == iss.file \o ":" \o ToString(iss.line)

\* the keys of by_loc, in the order of their insertion
Locations(issues) ==
  LET F[i \in 0..Len(issues)] ==
        IF i = 0 THEN <<>>
        ELSE IF \E j \in 1..Len(F[i - 1]) : F[i - 1][j] = Location(issues[i])
             THEN F[i - 1]
             ELSE Append(F[i - 1], Location(issues[i]))
  IN  F[Len(issues)]

\* for i in range(len(group)): for j in range(i + 1, len(group)): ...
ContradictionsIn(group) ==
  LET n == Len(group)
      P[k \in 0..(n * n)] ==
        IF k = 0 THEN <<>>
        ELSE LET i == ((k - 1) \div n) + 1
                 j == ((k - 1) % n) + 1
                 a_sug == NormalSuggestion(group[i])
                 b_sug == NormalSuggestion(group[j])
             IN  IF i < j /\ a_sug # <<>> /\ b_sug # <<>> /\ a_sug # b_sug
                 THEN Append(P[k - 1], <<group[i], group[j]>>)
                 ELSE P[k - 1]
  IN  P[n * n]

\* Every member of a group of two or more is stripped in some pair.
detect_contradictions_raises(issues) ==
  \E k \in 1..Len(issues) :
    /\ StripRaises(issues[k])
    /\ \E j \in 1..Len(issues) : j # k /\ Location(issues[j]) = Location(issues[k])

detect_contradictions(issues) ==
  LET locs == Locations(issues)
      C[k \in 0..Len(locs)] ==
        IF k = 0 THEN <<>>
        ELSE LET group == SelectSeq(issues, LAMBDA i : Location(i) = locs[k])
             IN  IF Len(group) < 2 THEN C[k - 1]
                 ELSE C[k - 1] \o ContradictionsIn(group)
  IN  C[Len(locs)]

\* ------------------------------------------------------------ run state
VARIABLES
  dry_run,            \* AgentOrchestrator.dry_run / CommentAgent.dry_run
  budget_expired,     \* TimeBudget.expired
  pc,                 \* position in run(): "loop", "fail", "returned", "raised"
  idx,                \* index into _PIPELINE (1-based)
  retry_count,        \* run()'s local dict retry_count
  exc,                \* the exception caught last, named by the stage that raised it
  _state,
  _pr,
  _raw_diff,
  _plan,
  _linter_results,
  _raw_issues,
  _validated_issues,
  _summary,
  _receipt,
  result,             \* what run() returns
  exit_status,        \* what runner.main returns
  calls,              \* number of calls made to each collaborator
  call_log,           \* the collaborator calls made, in order
  executed,           \* handler invocations made by _execute_state, in order
  posted,             \* arguments of every commenter.post_results call, in order
  jump_from           \* stages at whose boundary the budget jump was taken

vars ==
  <<dry_run, budget_expired, pc, idx, retry_count, exc, _state, _pr,
    _raw_diff, _plan, _linter_results, _raw_issues, _validated_issues, _summary,
    _receipt, result, exit_status, calls, call_log, executed, posted, jump_from,
    critic_state, chunker_state, tools_state>>

data ==
  <<_pr, _raw_diff, _plan, _linter_results, _raw_issues, _validated_issues,
    _summary, _receipt>>

Collaborators ==
  {"gh.get_pr_metadata", "gh.get_unified_diff", "planner.plan", "run_all_linters",
   "reviewer.review_plan", "critic.critique", "critic.detect_contradictions",
   "commenter.post_results"}

PRMetadata == [head_sha |-> "sha"]

EmptySummary == [kind |-> "empty", detail |-> 0]
SkipSummary == [kind |-> "No reviewable files found", detail |-> 0]
ReviewSummary(issues) == [kind |-> "review", detail |-> Len(issues)]
FailureSummary(e) == [kind |-> "AI Code Review - Failure", detail |-> e]

EmptyReceipt == [summary_id |-> NoValue, inline_ids |-> 0, dry_run |-> FALSE, total_issues |-> 0]

ReviewPlan(skip) ==
  [skip_review |-> skip,
   skip_reason |-> IF skip THEN "No reviewable files after filtering." ELSE ""]

\* CriticAgent.__init__ with the policy the orchestrator hands it
DefaultPolicy ==
  [min_severity |-> min_severity, max_comments |-> max_comments,
   nit_consolidation |-> nit_consolidation, nit_threshold |-> nit_threshold]

NoCall ==
  [issues |-> <<>>, filtered |-> <<>>, deduped |-> <<>>, sorted_issues |-> <<>>,
   budgeted |-> <<>>, final |-> <<>>]

\* the critic as the orchestrator constructs it, before any call
CriticConstructed ==
  /\ critic_pending = <<>>
  /\ critic_call = NoCall
  /\ critic_previous = None
  /\ contradictions = <<>>

\* the run state as __init__ and the head of run() leave it
RunConstructed ==
  /\ pc = "loop"
  /\ idx = 1
  /\ retry_count = [s \in {} |-> 0]
  /\ exc = NoValue
  /\ _state = "PLAN"
  /\ _pr = None
  /\ _raw_diff = ""
  /\ _plan = None
  /\ _linter_results = <<>>
  /\ _raw_issues = <<>>
  /\ _validated_issues = <<>>
  /\ _summary = EmptySummary
  /\ _receipt = EmptyReceipt
  /\ result = None
  /\ exit_status = None
  /\ calls = [c \in Collaborators |-> 0]
  /\ call_log = <<>>
  /\ executed = <<>>
  /\ posted = <<>>
  /\ jump_from = {}

\* The state after __init__.  TimeBudget(0) is expired from the start.
Init ==
  /\ dry_run \in BOOLEAN
  /\ budget_expired \in BOOLEAN
  /\ RunConstructed
  /\ critic_policy = DefaultPolicy
  /\ CriticConstructed
  /\ critic_pc = "idle"
  /\ ChunkerIdle
  /\ ToolsIdle

\* ---------------------------------------------------------- run(): loop
\* states at which an expired budget does not divert the loop
NoJumpStates_with_critique == {"CRITIQUE_VALIDATE", "POST_COMMENTS", "SUMMARIZE", "DONE"}

NoJumpStates == {"POST_COMMENTS", "SUMMARIZE", "DONE"}

\* the loop is at the head of an iteration for _PIPELINE[idx]
AtHead == pc = "loop" /\ idx <= Len(_PIPELINE)

\* if self.budget.expired and state not in (POST_COMMENTS, SUMMARIZE, DONE)
JumpDue == budget_expired /\ _PIPELINE[idx] \notin NoJumpStates

\* The wall clock runs while a handler executes: a budget that has not
\* expired when the handler starts may have expired when it returns or raises.
\* From POST_COMMENTS on nothing reads the clock any more (run() reads it
\* only to decide the jump, which those states never take).
Clock(s) ==
  budget_expired' \in (IF budget_expired \/ s \in NoJumpStates
                       THEN {budget_expired} ELSE BOOLEAN)

\* ... idx = _PIPELINE.index(State.POST_COMMENTS); continue
BudgetJump ==
  /\ UNCHANGED <<exit_status, critic_state, chunker_state, tools_state>>
  /\ AtHead /\ JumpDue
  /\ _state' = _PIPELINE[idx]
  /\ idx' = PipelineIndex("POST_COMMENTS")
  /\ jump_from' = jump_from \cup {_PIPELINE[idx]}
  /\ UNCHANGED <<dry_run, budget_expired, pc, retry_count, exc, data, result,
                 calls, call_log, executed, posted>>

\* the iteration goes on into the try block with state = s
Enter(s) ==
  /\ AtHead /\ ~ JumpDue
  /\ _PIPELINE[idx] = s
  /\ _state' = s

ShouldRetry_strict(count) == count < max_retries

\* if retry_count[state_key] <= self.max_retries
ShouldRetry(count) == count <= max_retries

RetryCount(s) == IF s \in DOMAIN retry_count THEN retry_count[s] ELSE 0

\* the handler returned: idx += 1
Succeeded ==
  /\ idx' = idx + 1
  /\ pc' = "loop"
  /\ UNCHANGED <<retry_count, exc>>

\* the handler raised: the except branch of run()
Raised(s) ==
  /\ retry_count' = [k \in DOMAIN retry_count \cup {s} |->
                       IF k = s THEN RetryCount(s) + 1 ELSE retry_count[k]]
  /\ exc' = s
  /\ idx' = idx
  /\ pc' = IF ShouldRetry(RetryCount(s) + 1) THEN "loop" ELSE "fail"

Called(names) ==
  /\ calls' = [c \in Collaborators |->
                IF \E k \in 1..Len(names) : names[k] = c THEN calls[c] + 1 ELSE calls[c]]
  /\ call_log' = call_log \o names

\* one handler invocation, with the state of the clock when it ended
Executed(s, ok) ==
  /\ Clock(s)
  /\ executed' = Append(executed, [state |-> s, ok |-> ok, expired |-> budget_expired'])

\* ------------------------------------------------------ posting boundary
\* CommentAgent.post_results: the receipt it returns when nothing raises
Receipt(issues) ==
  [summary_id |-> IF dry_run THEN "dry-run" ELSE "cid",
   inline_ids |-> IF Len(issues) <= max_inline THEN Len(issues) ELSE max_inline,
   dry_run |-> dry_run,
   total_issues |-> Len(issues)]

\* In dry-run mode post_results makes no call on the hosting API and cannot
\* fail; otherwise _upsert_summary's API calls can raise.
PostOutcomes == IF dry_run THEN {TRUE} ELSE {TRUE, FALSE}

Posted(issues, summary_text, ok) ==
  posted' = Append(posted, [issues |-> issues, summary_text |-> summary_text,
                            state |-> _state', ok |-> ok])

\* ------------------------------------------------------- stage handlers
_do_plan ==
  /\ UNCHANGED <<exit_status, critic_state, chunker_state, tools_state>>
  /\ Enter("PLAN")
  /\ Called(<<"gh.get_pr_metadata">>)
  /\ \E ok \in BOOLEAN :
       /\ Executed("PLAN", ok)
       /\ IF ok
          THEN /\ _pr' = Some(PRMetadata)
               /\ Succeeded
          ELSE /\ _pr' = _pr
               /\ Raised("PLAN")
  /\ UNCHANGED <<dry_run, _raw_diff, _plan, _linter_results, _raw_issues,
                 _validated_issues, _summary, _receipt, result, posted, jump_from>>

\* "assert self._pr is not None" holds whenever GATHER_DIFF is entered: the
\* loop reaches it only through a PLAN that returned.
_do_gather_diff ==
  /\ UNCHANGED <<exit_status, critic_state, chunker_state, tools_state>>
  /\ Enter("GATHER_DIFF")
  /\ _pr # None
  /\ UNCHANGED <<dry_run, _pr, _linter_results, _raw_issues, _validated_issues,
                 _receipt, result, posted, jump_from>>
  /\ \/ \* gh.get_unified_diff raises
        /\ Called(<<"gh.get_unified_diff">>)
        /\ Executed("GATHER_DIFF", FALSE) /\ Raised("GATHER_DIFF")
        /\ UNCHANGED <<_raw_diff, _plan, _summary>>
     \/ /\ Called(<<"gh.get_unified_diff", "planner.plan">>)
        /\ _raw_diff' = "diff"
        /\ \E skip \in BOOLEAN :
             /\ _plan' = Some(ReviewPlan(skip))
             /\ _summary' = IF skip THEN SkipSummary ELSE _summary
        /\ Executed("GATHER_DIFF", TRUE) /\ Succeeded

\* if self._plan and self._plan.skip_review
PlanSkips == _plan # None /\ _plan[1].skip_review

\* "assert self._plan is not None" holds whenever RUN_LINTERS or REVIEW_CHUNKS
\* is entered: the loop reaches them only through a GATHER_DIFF that returned.
\* run_all_linters does not raise: every runner goes through _run, which
\* catches every exception, and a tool that is not installed is skipped.
_do_run_linters ==
  /\ UNCHANGED <<exit_status, critic_state, chunker_state, tools_state>>
  /\ Enter("RUN_LINTERS")
  /\ _plan # None
  /\ UNCHANGED <<dry_run, _pr, _raw_diff, _plan, _raw_issues, _validated_issues,
                 _summary, _receipt, result, posted, jump_from>>
  /\ \/ /\ PlanSkips
        /\ Executed("RUN_LINTERS", TRUE) /\ Succeeded
        /\ UNCHANGED <<_linter_results, calls, call_log>>
     \/ /\ ~ PlanSkips
        /\ Called(<<"run_all_linters">>)
        /\ _linter_results' = <<"lint">>
        /\ Executed("RUN_LINTERS", TRUE) /\ Succeeded

_do_review_chunks ==
  /\ UNCHANGED <<exit_status, critic_state, chunker_state, tools_state>>
  /\ Enter("REVIEW_CHUNKS")
  /\ _plan # None
  /\ UNCHANGED <<dry_run, _pr, _raw_diff, _plan, _linter_results,
                 _validated_issues, _receipt, result, posted, jump_from>>
  /\ \/ /\ PlanSkips
        /\ Executed("REVIEW_CHUNKS", TRUE) /\ Succeeded
        /\ UNCHANGED <<_raw_issues, _summary, calls, call_log>>
     \/ /\ ~ PlanSkips
        /\ Called(<<"reviewer.review_plan">>)
        /\ \/ /\ Executed("REVIEW_CHUNKS", FALSE) /\ Raised("REVIEW_CHUNKS")
              /\ UNCHANGED <<_raw_issues, _summary>>
           \/ \E all_issues \in ReviewOutputs :
                /\ _raw_issues' = all_issues
                /\ _summary' = ReviewSummary(all_issues)
                /\ Executed("REVIEW_CHUNKS", TRUE) /\ Succeeded

\* variant: the attribute is extended with what the call returned
Assigned_extends(held, returned) == held \o returned

\* self._validated_issues = self.critic.critique(...): the attribute is
\* bound to what the call returned, whatever it held
Assigned(held, returned) == returned

\* critique() is a pipeline of total functions; what can raise in the stage
\* is detect_contradictions (a suggestion that is not a string), after
\* self._validated_issues has been assigned.
_do_critique ==
  /\ UNCHANGED <<exit_status, critic_state, chunker_state, tools_state>>
  /\ Enter("CRITIQUE_VALIDATE")
  /\ UNCHANGED <<dry_run, _pr, _raw_diff, _plan, _linter_results, _summary,
                 _receipt, result, posted, jump_from>>
  /\ \/ /\ PlanSkips
        /\ Executed("CRITIQUE_VALIDATE", TRUE) /\ Succeeded
        /\ UNCHANGED <<_raw_issues, _validated_issues, calls, call_log>>
     \/ /\ ~ PlanSkips
        /\ Called(<<"critic.critique", "critic.detect_contradictions">>)
        /\ _validated_issues' = Assigned(_validated_issues, critique(_raw_issues))
        /\ _raw_issues' = HashesAttached(_raw_issues)
        /\ \E ok \in BOOLEAN :
             /\ Executed("CRITIQUE_VALIDATE", ok)
             /\ IF ok THEN Succeeded ELSE Raised("CRITIQUE_VALIDATE")

_do_post_comments ==
  /\ UNCHANGED <<exit_status, critic_state, chunker_state, tools_state>>
  /\ Enter("POST_COMMENTS")
  /\ UNCHANGED <<dry_run, _pr, _raw_diff, _plan, _linter_results, _raw_issues,
                 _validated_issues, _summary, result, jump_from>>
  /\ \/ \* assert self._pr is not None
        /\ _pr = None
        /\ Executed("POST_COMMENTS", FALSE) /\ Raised("POST_COMMENTS")
        /\ UNCHANGED <<_receipt, calls, call_log, posted>>
     \/ /\ _pr # None
        /\ Called(<<"commenter.post_results">>)
        /\ \E ok \in PostOutcomes :
             /\ Posted(_validated_issues, _summary, ok)
             /\ Executed("POST_COMMENTS", ok)
             /\ IF ok
                THEN _receipt' = Receipt(_validated_issues) /\ Succeeded
                ELSE _receipt' = _receipt /\ Raised("POST_COMMENTS")

\* _do_summarize and _do_done only log
_do_summarize ==
  /\ UNCHANGED <<exit_status, critic_state, chunker_state, tools_state>>
  /\ Enter("SUMMARIZE")
  /\ Executed("SUMMARIZE", TRUE) /\ Succeeded
  /\ UNCHANGED <<dry_run, data, result, calls, call_log, posted, jump_from>>

_do_done ==
  /\ UNCHANGED <<exit_status, critic_state, chunker_state, tools_state>>
  /\ Enter("DONE")
  /\ Executed("DONE", TRUE) /\ Succeeded
  /\ UNCHANGED <<dry_run, data, result, calls, call_log, posted, jump_from>>

\* ------------------------------------------------------------ the result
\* elapsed_seconds is wall-clock time and is not part of the model
_build_result(state) ==
  [repo |-> "owner/repo",
   pr_number |-> 1,
   final_state |-> state,
   total_raw_issues |-> Len(_raw_issues),
   total_validated_issues |-> Len(_validated_issues),
   receipt |-> _receipt,
   dry_run |-> dry_run,
   plan |-> _plan]

\* result = self._build_result(); if self.audit_log: write_audit_log(...);
\* return result.  Writing the audit log can raise, and run() then does not
\* return.
Return(state) ==
  /\ result' = Some(_build_result(state))
  /\ pc' \in {"returned", "raised"}

\* the while condition is false
LoopExit ==
  /\ UNCHANGED <<exit_status, critic_state, chunker_state, tools_state>>
  /\ pc = "loop"
  /\ idx > Len(_PIPELINE)
  /\ Return(_state)
  /\ UNCHANGED <<dry_run, budget_expired, idx, retry_count, exc, _state, data,
                 calls, call_log, executed, posted, jump_from>>

\* --------------------------------------------------------------- failure
_fail_gracefully_keeps_state ==
  /\ UNCHANGED <<exit_status, critic_state, chunker_state, tools_state>>
  /\ pc = "fail"
  /\ _state' = _state
  /\ IF _pr # None
     THEN /\ Called(<<"commenter.post_results">>)
          /\ \E ok \in PostOutcomes : Posted(<<>>, FailureSummary(exc), ok)
     ELSE UNCHANGED <<calls, call_log, posted>>
  /\ Return(_state')
  /\ UNCHANGED <<dry_run, budget_expired, idx, retry_count, exc, data,
                 executed, jump_from>>

_fail_gracefully_no_break ==
  /\ UNCHANGED <<exit_status, critic_state, chunker_state, tools_state>>
  /\ pc = "fail"
  /\ _state' = "FAIL_GRACEFULLY"
  /\ IF _pr # None
     THEN /\ Called(<<"commenter.post_results">>)
          /\ \E ok \in PostOutcomes : Posted(<<>>, FailureSummary(exc), ok)
     ELSE UNCHANGED <<calls, call_log, posted>>
  /\ pc' = "loop"
  /\ UNCHANGED <<dry_run, budget_expired, idx, retry_count, exc, data, result,
                 executed, jump_from>>

\* self._fail_gracefully(exc); break; then the result is built and returned
_fail_gracefully ==
  /\ UNCHANGED <<exit_status, critic_state, chunker_state, tools_state>>
  /\ pc = "fail"
  /\ _state' = "FAIL_GRACEFULLY"
  /\ IF _pr # None
     THEN /\ Called(<<"commenter.post_results">>)
          /\ \E ok \in PostOutcomes : Posted(<<>>, FailureSummary(exc), ok)
     ELSE UNCHANGED <<calls, call_log, posted>>
  /\ Return(_state')
  /\ UNCHANGED <<dry_run, budget_expired, idx, retry_count, exc, data,
                 executed, jump_from>>

\* runner.main after orchestrator.run() has returned: the exit code
main_accepts_failure ==
  /\ pc = "returned"
  /\ exit_status = None
  /\ exit_status' = Some(IF result[1].final_state \in {"DONE", "FAIL_GRACEFULLY"} THEN 0 ELSE 1)
  /\ UNCHANGED <<critic_state, chunker_state, tools_state>>
  /\ UNCHANGED <<dry_run, budget_expired, pc, idx, retry_count, exc, _state, data,
                 result, calls, call_log, executed, posted, jump_from>>

main ==
  /\ pc = "returned"
  /\ exit_status = None
  /\ exit_status' = Some(IF result[1].final_state \in {"DONE", "SUMMARIZE"} THEN 0 ELSE 1)
  /\ UNCHANGED <<critic_state, chunker_state, tools_state>>
  /\ UNCHANGED <<dry_run, budget_expired, pc, idx, retry_count, exc, _state, data,
                 result, calls, call_log, executed, posted, jump_from>>

Next ==
  \/ BudgetJump
  \/ _do_plan
  \/ _do_gather_diff
  \/ _do_run_linters
  \/ _do_review_chunks
  \/ _do_critique
  \/ _do_post_comments
  \/ _do_summarize
  \/ _do_done
  \/ LoopExit
  \/ _fail_gracefully
  \/ main

Spec == Init /\ [][Next]_vars

\* run() is one sequential thread and every collaborator call is bounded in
\* time, so a step of run() that can be taken is taken.
FairSpec == Spec /\ WF_vars(Next)

TypeOK ==
  /\ pc \in {"loop", "fail", "returned", "raised"}
  /\ idx \in 1..(Len(_PIPELINE) + 1)
  /\ _state \in State
  /\ budget_expired \in BOOLEAN
  /\ Len(_raw_issues) <= MaxIssues

\* =====================================================================
\* The critic on its own: critique() and detect_contradictions applied to
\* findings lists under several policies
\* =====================================================================
\* The suggestion that comes with a finding: "X", " x ", "Y", "x", a blank
\* text, a number, or none
SuggestionOf(file, severity, message) ==
  IF message = "m"
  THEN (IF severity = "error" THEN <<"X">>
        ELSE IF severity = "warn" THEN <<" ", "x", " ">>
        ELSE IF file = "a.py" THEN JsonNumber ELSE <<" ">>)
  ELSE (IF severity = "error" THEN <<"Y">>
        ELSE IF severity = "warn" THEN <<"x">> ELSE NoValue)

\* Findings of two files: errors and warnings on line 1, info findings on
\* line 1 or 2 according to their message
FindingPool ==
  {[Finding(f, IF sev = "info" /\ msg = "n" THEN 2 ELSE 1, sev, msg)
      EXCEPT !.suggestion = SuggestionOf(f, sev, msg)] :
     f \in {"a.py", "b.py"}, sev \in {"error", "warn", "info"}, msg \in {"m", "n"}}

RECURSIVE SeqsUpTo(_, _)
SeqsUpTo(S, n) ==
  IF n = 0 THEN {<<>>}
  ELSE LET shorter == SeqsUpTo(S, n - 1)
       IN  shorter \cup {Append(q, x) : q \in {r \in shorter : Len(r) = n - 1}, x \in S}

FindingLists == SeqsUpTo(FindingPool, MaxFindings)

\* policies with a small and a large comment budget and nit threshold
Policies ==
  {[min_severity |-> min_severity, max_comments |-> n,
    nit_consolidation |-> nit_consolidation, nit_threshold |-> t] :
     n \in {2, max_comments}, t \in {2, nit_threshold}}

RunIdle ==
  UNCHANGED <<dry_run, budget_expired, pc, idx, retry_count, exc, _state, data,
              result, exit_status, calls, call_log, executed, posted, jump_from, chunker_state, tools_state>>

CriticInit ==
  /\ dry_run = FALSE
  /\ budget_expired = FALSE
  /\ RunConstructed
  /\ critic_policy \in Policies
  /\ critic_pending \in FindingLists
  /\ critic_call = NoCall
  /\ critic_previous = None
  /\ contradictions = <<>>
  /\ critic_pc = "ready"
  /\ ChunkerIdle
  /\ ToolsIdle

\* critic.critique(issues), with the "_hash" it leaves on the caller's dicts
critique_raw ==
  /\ critic_pc = "ready"
  /\ critic_call' = critique_locals(critic_pending)
  /\ critic_pending' = HashesAttached(critic_pending)
  /\ critic_pc' = "critiqued"
  /\ UNCHANGED <<critic_policy, critic_previous, contradictions>>
  /\ RunIdle

\* critic.detect_contradictions(validated)
detect ==
  /\ critic_pc = "critiqued"
  /\ IF detect_contradictions_raises(critic_call.final)
     THEN critic_pc' = "raised" /\ contradictions' = contradictions
     ELSE /\ contradictions' = detect_contradictions(critic_call.final)
          /\ critic_pc' = "detected"
  /\ UNCHANGED <<critic_policy, critic_pending, critic_call, critic_previous>>
  /\ RunIdle

\* critic.critique applied to what critic.critique returned
critique_again ==
  /\ critic_pc = "detected"
  /\ critic_previous = None
  /\ critic_call' = critique_locals(critic_call.final)
  /\ critic_previous' = Some(critic_call.final)
  /\ critic_pc' = "critiqued"
  /\ UNCHANGED <<critic_policy, critic_pending, contradictions>>
  /\ RunIdle

CriticNext == critique_raw \/ detect \/ critique_again

CriticSpec == CriticInit /\ [][CriticNext]_vars

\* =====================================================================
\* Properties of the stage sequencer
\* =====================================================================
ExpectedOrder ==
  <<"PLAN", "GATHER_DIFF", "RUN_LINTERS", "REVIEW_CHUNKS", "CRITIQUE_VALIDATE",
    "POST_COMMENTS", "SUMMARIZE", "DONE">>

Returned == pc = "returned"
final_state == result[1].final_state

Attempts(s) == Cardinality({i \in 1..Len(executed) : executed[i].state = s})
FailedAttempts(s) == Cardinality({i \in 1..Len(executed) : executed[i].state = s /\ ~ executed[i].ok})
EverSucceeded(s) == \E i \in 1..Len(executed) : executed[i].state = s /\ executed[i].ok
ExecutedStates == [i \in 1..Len(executed) |-> executed[i].state]
NoStageFailed == \A i \in 1..Len(executed) : executed[i].ok

\* C1: run() terminates for every sequence of stage outcomes and every
\* moment of budget expiry, and the final_state of the result it returns is
\* DONE or FAIL_GRACEFULLY, never an intermediate stage and never
\* SELF_HEAL_RETRY.
\* (A run that has returned takes no further step, so reaching such a state
\* eventually is reaching it for good; "raised" is run() leaving through an
\* exception of the audit-log write.)
C1_OneTerminalOutcome ==
  <>(\/ Returned /\ final_state \in {"DONE", "FAIL_GRACEFULLY"}
     \/ pc = "raised")

\* a run that retried a stage, lost its budget and still failed
C1_Witness ==
  /\ Returned /\ final_state = "FAIL_GRACEFULLY"
  /\ budget_expired /\ jump_from # {}
  /\ \E s \in DOMAIN retry_count : s # "POST_COMMENTS" /\ retry_count[s] > 0

\* C2: with no stage failure, no skip plan and no budget jump, run() executes
\* each stage exactly once in the order PLAN, GATHER_DIFF, RUN_LINTERS,
\* REVIEW_CHUNKS, CRITIQUE_VALIDATE, POST_COMMENTS, SUMMARIZE, DONE and ends
\* in DONE.
C2_HappyPathOrder ==
  (Returned /\ NoStageFailed /\ jump_from = {} /\ ~ PlanSkips)
    => (ExecutedStates = ExpectedOrder /\ final_state = "DONE")

C2_Witness ==
  /\ Returned /\ NoStageFailed /\ jump_from = {} /\ ~ PlanSkips
  /\ ~ budget_expired /\ Len(_validated_issues) > 0

\* C3: a stage is attempted at most max_retries + 1 times; a stage whose
\* every attempt raised was attempted exactly max_retries + 1 times unless the
\* budget jump took the run away from it, and its last failure sends the run
\* to FAIL_GRACEFULLY; a successful attempt lets the run advance to the next
\* stage.
C3_BoundedRetry ==
  /\ \A s \in State : Attempts(s) <= max_retries + 1
  /\ pc = "fail" =>
       /\ Attempts(exc) = max_retries + 1
       /\ FailedAttempts(exc) = max_retries + 1
       /\ executed[Len(executed)].state = exc
  /\ \A s \in State :
       (pc \in {"returned", "raised"} /\ Attempts(s) > 0 /\ ~ EverSucceeded(s))
         => \/ Attempts(s) = max_retries + 1 /\ _state = "FAIL_GRACEFULLY"
            \/ Attempts(s) < max_retries + 1 /\ s \in jump_from
  /\ \A s \in State :
       FailedAttempts(s) = max_retries + 1
         => pc \in {"fail", "returned", "raised"}
  /\ (pc = "loop" /\ executed # <<>> /\ executed[Len(executed)].ok
        /\ _state = executed[Len(executed)].state)
       => idx = IndexOf(ExpectedOrder, executed[Len(executed)].state, 1) + 1

C3_Witness ==
  /\ Returned /\ final_state = "FAIL_GRACEFULLY"
  /\ ~ budget_expired
  /\ exc = "REVIEW_CHUNKS" /\ FailedAttempts("REVIEW_CHUNKS") = max_retries + 1
  /\ FailedAttempts("PLAN") = 1 /\ EverSucceeded("PLAN")

\* C4: whenever a run ends in FAIL_GRACEFULLY, whichever stage exhausted its
\* retries (PLAN included), the failure handler has attempted to post the
\* failure notice with an empty findings list, and run() still returns.
C4_NoticeAlwaysAttempted ==
  (pc \in {"returned", "raised"} /\ _state = "FAIL_GRACEFULLY")
    => \E i \in 1..Len(posted) :
         /\ posted[i].state = "FAIL_GRACEFULLY"
         /\ posted[i].issues = <<>>
         /\ posted[i].summary_text = FailureSummary(exc)

\* C5: with a skip plan the stage after GATHER_DIFF is POST_COMMENTS:
\* RUN_LINTERS, REVIEW_CHUNKS and CRITIQUE_VALIDATE are never entered, no
\* linter, reviewer or critic call is made, and POST_COMMENTS posts the
\* "No reviewable files found" summary with zero findings.
C5_SkipGoesStraightToPost ==
  PlanSkips =>
    /\ \A i \in 1..Len(executed) :
         executed[i].state \notin {"RUN_LINTERS", "REVIEW_CHUNKS", "CRITIQUE_VALIDATE"}
    /\ _state \notin {"RUN_LINTERS", "REVIEW_CHUNKS", "CRITIQUE_VALIDATE"}
    /\ calls["run_all_linters"] = 0
    /\ calls["reviewer.review_plan"] = 0
    /\ calls["critic.critique"] = 0
    /\ \A i \in 1..Len(posted) :
         posted[i].state = "POST_COMMENTS"
           => posted[i].summary_text = SkipSummary /\ posted[i].issues = <<>>

C7_BudgetJumpNeverFails ==
  (jump_from # {} /\ \A i \in 1..Len(posted) : posted[i].ok)
    => /\ pc # "fail"
       /\ _state # "FAIL_GRACEFULLY"
       /\ FailedAttempts("POST_COMMENTS") = 0
       /\ Returned => final_state = "DONE"

\* C8: when the budget jump is taken after REVIEW_CHUNKS produced raw
\* findings, what POST_COMMENTS hands to the posting collaborator is not an
\* empty list.
C8_AccumulatedFindingsPosted ==
  \A i \in 1..Len(posted) :
    (posted[i].state = "POST_COMMENTS" /\ jump_from # {} /\ _raw_issues # <<>>)
      => posted[i].issues # <<>>

\* a step taken from a terminal state
TerminalStep ==
  _state \in {"DONE", "FAIL_GRACEFULLY"} =>
    /\ _state' = _state
    /\ data' = data
    /\ calls' = calls
    /\ posted' = posted
    /\ executed' = executed

\* C9: once _state is DONE or FAIL_GRACEFULLY it never changes again, no
\* handler of another stage runs, the run's data stay as they are and no
\* collaborator is called; the failure notice is posted at most once, on
\* entering FAIL_GRACEFULLY.
C9_NeverResurrected ==
  /\ [][TerminalStep]_vars
  /\ [](Cardinality({i \in 1..Len(posted) : posted[i].state = "FAIL_GRACEFULLY"}) <= 1)
  /\ [](\A i \in 1..Len(posted) :
          posted[i].state = "FAIL_GRACEFULLY" => i = Len(posted))

C9_Witness ==
  /\ Returned /\ final_state = "FAIL_GRACEFULLY"
  /\ posted # <<>>
  /\ posted[Len(posted)].state = "FAIL_GRACEFULLY"
  /\ EverSucceeded("REVIEW_CHUNKS")

\* C10: the result of a failed run has the shape of a successful one
\* (final_state, total_raw_issues, total_validated_issues) and carries an
\* "error" field besides; a successful run's final_state is DONE.
C10_FailedReceiptHasError ==
  Returned =>
    /\ {"final_state", "total_raw_issues", "total_validated_issues"} \subseteq DOMAIN result[1]
    /\ result[1].total_raw_issues = Len(_raw_issues)
    /\ result[1].total_validated_issues = Len(_validated_issues)
    /\ pc = "returned" /\ exc = NoValue => final_state = "DONE"
    /\ final_state = "FAIL_GRACEFULLY" => "error" \in DOMAIN result[1]

\* C11: runner.main returns 0 exactly when the run ended in DONE, and 1 for
\* every run that ended in FAIL_GRACEFULLY.
C11_ExitStatus ==
  exit_status # None =>
    /\ exit_status[1] \in {0, 1}
    /\ exit_status[1] = 0 <=> final_state = "DONE"
    /\ final_state = "FAIL_GRACEFULLY" => exit_status[1] = 1

C11_Witness ==
  /\ exit_status = Some(1)
  /\ final_state = "FAIL_GRACEFULLY"
  /\ posted # <<>> /\ posted[Len(posted)].ok

\* =====================================================================
\* Properties of the critic
\* =====================================================================
\* C12: critique is idempotent: critique(critique(X)) is critique(X), the
\* same findings in the same order with the same field values, the hash of
\* every finding and of every consolidated nit finding included.
C12_CritiqueIdempotent ==
  critic_previous # None => critic_call.final = critic_previous[1]

\* the positions of seq whose finding is the first with its hash
FirstOccurrences(seq) ==
  {i \in 1..Len(seq) : \A j \in 1..(i - 1) : HashOf(seq[j]) # HashOf(seq[i])}

\* C13: after the deduplicate step no two findings have the same stable
\* hash; of the input findings with one hash the first in input order is the
\* one kept, whatever its severity, and it carries that hash.
C13_DedupeKeepsFirst ==
  critic_pc # "ready" =>
    LET input == critic_call.filtered
        kept == critic_call.deduped
        firsts == FirstOccurrences(input)
    IN  /\ \A k, l \in 1..Len(kept) : k # l => HashOf(kept[k]) # HashOf(kept[l])
        /\ Len(kept) = Cardinality(firsts)
        /\ \A i \in firsts :
             LET k == Cardinality({j \in firsts : j <= i})
             IN  kept[k] = [input[i] EXCEPT !._hash = HashOf(input[i])]

C13_Witness ==
  /\ critic_pc = "critiqued" /\ critic_previous = None
  /\ Len(critic_call.filtered) = 3
  /\ Len(critic_call.deduped) = 2
  /\ critic_call.filtered[1].severity = "info"
  /\ critic_call.filtered[3].severity = "error"
  /\ HashOf(critic_call.filtered[1]) = HashOf(critic_call.filtered[3])

\* the position in seq of the first finding with the hash of x (0: none)
FirstWithHash(seq, x) ==
  IF \E i \in 1..Len(seq) : HashOf(seq[i]) = HashOf(x)
  THEN CHOOSE i \in 1..Len(seq) :
         /\ HashOf(seq[i]) = HashOf(x)
         /\ \A j \in 1..(i - 1) : HashOf(seq[j]) # HashOf(x)
  ELSE 0

BySeverity(seq) ==
  \A k, l \in 1..Len(seq) : k < l => severity_key(seq[k]) <= severity_key(seq[l])

\* C14 as stated: in the list critique returns no error follows a warn or
\* info, no warn follows an info, and findings of equal severity keep the
\* relative order they had in the input.
C14_StableInReturnedList ==
  critic_pc # "ready" =>
    LET out == critic_call.final
        input == critic_call.issues
    IN  /\ BySeverity(out)
        /\ \A k, l \in 1..Len(out) :
             (/\ k < l
              /\ out[k].severity = out[l].severity
              /\ ~ out[k]._consolidated /\ ~ out[l]._consolidated)
               => FirstWithHash(input, out[k]) < FirstWithHash(input, out[l])

\* C14 amended: the returned list is ordered by severity; the sort step is
\* stable; in the returned list findings of equal severity keep their
\* original relative order when they are not info findings or are info
\* findings of one file.
C14_StableSort ==
  critic_pc # "ready" =>
    LET out == critic_call.final
        input == critic_call.issues
        unsorted == critic_call.deduped
        sorted == critic_call.sorted_issues
    IN  /\ BySeverity(out)
        /\ BySeverity(sorted)
        /\ Len(sorted) = Len(unsorted)
        /\ \A k, l \in 1..Len(sorted) :
             (k < l /\ sorted[k].severity = sorted[l].severity)
               => FirstWithHash(unsorted, sorted[k]) < FirstWithHash(unsorted, sorted[l])
        /\ \A k, l \in 1..Len(out) :
             (/\ k < l
              /\ out[k].severity = out[l].severity
              /\ ~ out[k]._consolidated /\ ~ out[l]._consolidated
              /\ out[k].severity # "info" \/ out[k].file = out[l].file)
               => FirstWithHash(input, out[k]) < FirstWithHash(input, out[l])

C14_Witness ==
  /\ critic_pc = "critiqued" /\ critic_previous = None
  /\ Len(critic_call.final) = 3
  /\ critic_call.issues[1].severity = "info"
  /\ critic_call.issues[2].severity = "error"
  /\ critic_call.issues[3].severity = "error"
  /\ critic_call.final[3] # critic_call.issues[3]

\* C15: the budget trim keeps exactly a prefix: a sorted list longer than
\* max_comments is cut to its first max_comments elements, in order, and a
\* list that is not longer is returned as it is.
C15_BudgetPrefix ==
  critic_pc # "ready" =>
    LET N == critic_policy.max_comments
        sorted == critic_call.sorted_issues
        out == critic_call.budgeted
    IN  IF Len(sorted) > N
        THEN Len(out) = N /\ \A k \in 1..N : out[k] = sorted[k]
        ELSE out = sorted

C15_Witness ==
  /\ critic_pc = "critiqued" /\ critic_previous = None
  /\ Len(critic_call.sorted_issues) = critic_policy.max_comments + 1
  /\ Len(critic_call.budgeted) = critic_policy.max_comments
  /\ critic_call.sorted_issues[3].severity = "error"

\* the info findings of one file, in order
InfoOf(seq, fname) ==
  SelectSeq(seq, LAMBDA i : i.severity = "info" /\ i.file = fname)

NonInfo(seq) == SelectSeq(seq, LAMBDA i : i.severity # "info")

\* the itemized list of the findings of nits, one "- L<line>: <message>" each
RECURSIVE Itemized(_)
Itemized(nits) ==
  IF nits = <<>> THEN ""
  ELSE "\n- L" \o ToString(Head(nits).line) \o ": " \o Head(nits).message
         \o Itemized(Tail(nits))

\* C16: nit consolidation acts per file: a file with at least nit_threshold
\* info findings is represented by exactly one synthetic info finding, whose
\* message lists every one of them and whose line is the first one's line; a
\* file with fewer keeps its info findings unchanged; findings that are not
\* info are never merged or altered.
C16_NitConsolidationPerFile ==
  critic_pc # "ready" =>
    LET input == critic_call.budgeted
        out == critic_call.final
        T == critic_policy.nit_threshold
    IN  /\ NonInfo(out) = NonInfo(input)
        /\ \A k \in 1..Len(out) : out[k].severity # "info" => ~ out[k]._consolidated
        /\ \A fname \in {input[k].file : k \in 1..Len(input)} \cup {out[k].file : k \in 1..Len(out)} :
             LET nits == InfoOf(input, fname)
                 kept == InfoOf(out, fname)
             IN  IF nits # <<>> /\ Len(nits) >= T
                 THEN /\ Len(kept) = 1
                      /\ kept[1]._consolidated
                      /\ kept[1].line = nits[1].line
                      /\ kept[1].message =
                           "**" \o ToString(Len(nits)) \o " minor suggestions:**" \o Itemized(nits)
                 ELSE kept = nits

C16_Witness ==
  /\ critic_pc = "critiqued" /\ critic_previous = None
  /\ critic_policy.nit_threshold = 2
  /\ Len(InfoOf(critic_call.budgeted, "a.py")) = 2
  /\ Len(InfoOf(critic_call.budgeted, "b.py")) = 1
  /\ critic_call.budgeted[1].file = "b.py"
  /\ critic_call.budgeted[2].line = 2
  /\ Len(critic_call.final) = 2

\* the pairs of findings of seq at one file and line whose suggestions, both
\* non-empty, differ after trimming and lower-casing
DifferingPairs(seq) ==
  {<<seq[i], seq[j]>> : <<i, j>> \in
     {p \in (1..Len(seq)) \X (1..Len(seq)) :
        /\ p[1] < p[2]
        /\ seq[p[1]].file = seq[p[2]].file
        /\ seq[p[1]].line = seq[p[2]].line
        /\ NormalSuggestion(seq[p[1]]) # <<>>
        /\ NormalSuggestion(seq[p[2]]) # <<>>
        /\ NormalSuggestion(seq[p[1]]) # NormalSuggestion(seq[p[2]])}}

\* C17: the contradiction detector is advisory only: called on the validated
\* findings it returns, and what it returns is exactly the pairs of findings
\* at one file and line whose non-empty suggestions differ after trimming and
\* lower-casing; the validated findings are as they were.
C17_DetectorAdvisory ==
  /\ critic_pc # "raised"
  /\ critic_pc = "detected" =>
       /\ {contradictions[k] : k \in 1..Len(contradictions)} = DifferingPairs(critic_call.final)
       /\ Len(contradictions) = Cardinality(DifferingPairs(critic_call.final))

\* =====================================================================
\* The chunker: chunk_file_diff(fd, max_lines), one step per DiffChunk
\* appended.  A text is a sequence of characters.
\* =====================================================================
\* variant: the lines run together without a separator
RECURSIVE Join_no_separator(_)
Join_no_separator(text_lines) ==
  IF text_lines = <<>> THEN <<>>
  ELSE Head(text_lines) \o Join_no_separator(Tail(text_lines))

\* "\n".join(text_lines)
RECURSIVE Join(_)
Join(text_lines) ==
  IF text_lines = <<>> THEN <<>>
  ELSE IF Len(text_lines) = 1 THEN text_lines[1]
  ELSE text_lines[1] \o <<"\n">> \o Join(Tail(text_lines))

\* sum(1 for ln in lines if not ln.startswith("-"))
RECURSIVE _count_new_lines(_)
_count_new_lines(text_lines) ==
  IF text_lines = <<>> THEN 0
  ELSE (IF Head(text_lines) # <<>> /\ Head(text_lines)[1] = "-" THEN 0 ELSE 1)
         + _count_new_lines(Tail(text_lines))

DiffChunk(file, hunk_header, context, start_line, end_line) ==
  [file |-> file, hunk_header |-> hunk_header, context |-> context,
   start_line |-> start_line, end_line |-> end_line]

\* the branch "len(hunk.lines) <= max_lines"
WholeHunkChunk(hunk) ==
  DiffChunk(fd.filename, hunk.header, Join(hunk.lines),
            hunk.new_start, hunk.new_start + hunk.new_count - 1)

Max(a, b) == IF a >= b THEN a ELSE b

\* variant: a slice that runs one line into the next segment
SegmentEnd_overlapping(from, text_lines) ==
  IF from + max_lines <= Len(text_lines) THEN from + max_lines ELSE Len(text_lines)

\* hunk.lines[i : i + max_lines] ends at index i + max_lines or at the end
\* (from is i + 1, the 1-based index of the segment's first line)
SegmentEnd(from, text_lines) ==
  IF from + max_lines - 1 <= Len(text_lines) THEN from + max_lines - 1 ELSE Len(text_lines)

\* the body of "for i in range(0, len(hunk.lines), max_lines)" for i = from - 1
SegmentChunk(hunk, from) ==
  LET segment == SubSeq(hunk.lines, from, SegmentEnd(from, hunk.lines))
      offset == _count_new_lines(SubSeq(hunk.lines, 1, from - 1))
      start == hunk.new_start + offset
      end == start + _count_new_lines(segment) - 1
  IN  DiffChunk(fd.filename, hunk.header, Join(segment), start, Max(start, end))

\* added, removed and blank lines
LineKinds == {<<"+", "a">>, <<"-", "b">>, <<>>}

\* A hunk as parse_unified_diff builds it from a well-formed diff: at least
\* one line, and a header whose new_count is the number of its added and
\* context lines.  The k-th hunk of a file starts at new-file line 10k - 9.
HunksAt(k) ==
  {[header |-> "@@ hunk " \o ToString(k) \o " @@",
    new_start |-> 10 * k - 9,
    new_count |-> _count_new_lines(text_lines),
    lines |-> text_lines] : text_lines \in SeqsUpTo(LineKinds, MaxHunkLines) \ {<<>>}}

FileDiffs ==
  {[filename |-> "a.py", hunks |-> hs] :
     hs \in {<<h>> : h \in HunksAt(1)} \cup (HunksAt(1) \X HunksAt(2))}

ChunkInit ==
  /\ dry_run = FALSE
  /\ budget_expired = FALSE
  /\ RunConstructed
  /\ critic_policy = DefaultPolicy
  /\ CriticConstructed
  /\ critic_pc = "idle"
  /\ fd \in FileDiffs
  /\ max_lines \in 1..MaxChunkLines
  /\ chunks = <<>>
  /\ hunk_no = 1
  /\ seg_from = 1
  /\ chunk_pc = "loop"
  /\ ToolsIdle

OutsideChunker ==
  UNCHANGED <<dry_run, budget_expired, pc, idx, retry_count, exc, _state, data,
              result, exit_status, calls, call_log, executed, posted, jump_from, critic_state, tools_state>>

\* a hunk that fits becomes one chunk
chunk_whole_hunk ==
  /\ chunk_pc = "loop"
  /\ hunk_no <= Len(fd.hunks)
  /\ Len(fd.hunks[hunk_no].lines) <= max_lines
  /\ chunks' = Append(chunks, WholeHunkChunk(fd.hunks[hunk_no]))
  /\ hunk_no' = hunk_no + 1
  /\ UNCHANGED <<fd, max_lines, seg_from, chunk_pc>>
  /\ OutsideChunker

\* one iteration of the loop that splits an oversized hunk
chunk_segment ==
  /\ chunk_pc = "loop"
  /\ hunk_no <= Len(fd.hunks)
  /\ Len(fd.hunks[hunk_no].lines) > max_lines
  /\ chunks' = Append(chunks, SegmentChunk(fd.hunks[hunk_no], seg_from))
  /\ IF seg_from + max_lines <= Len(fd.hunks[hunk_no].lines)
     THEN seg_from' = seg_from + max_lines /\ hunk_no' = hunk_no
     ELSE seg_from' = 1 /\ hunk_no' = hunk_no + 1
  /\ UNCHANGED <<fd, max_lines, chunk_pc>>
  /\ OutsideChunker

\* return chunks
chunk_return ==
  /\ chunk_pc = "loop"
  /\ hunk_no > Len(fd.hunks)
  /\ chunk_pc' = "done"
  /\ UNCHANGED <<fd, max_lines, chunks, hunk_no, seg_from>>
  /\ OutsideChunker

ChunkNext == chunk_whole_hunk \/ chunk_segment \/ chunk_return

ChunkSpec == ChunkInit /\ [][ChunkNext]_vars

\* ---------------------------------------------------------------------
\* Properties of the chunker
\* ---------------------------------------------------------------------
\* the raw lines a chunk holds: its context read back at the "\n" separators
RECURSIVE SplitLines(_)
SplitLines(text) ==
  IF \A p \in 1..Len(text) : text[p] # "\n" THEN <<text>>
  ELSE LET k == CHOOSE p \in 1..Len(text) :
                  text[p] = "\n" /\ \A q \in 1..(p - 1) : text[q] # "\n"
       IN  <<SubSeq(text, 1, k - 1)>> \o SplitLines(SubSeq(text, k + 1, Len(text)))

RawLines(chunk) == SplitLines(chunk.context)

RECURSIVE Flatten(_)
Flatten(lists) ==
  IF lists = <<>> THEN <<>> ELSE Head(lists) \o Flatten(Tail(lists))

\* the chunks made from one hunk, in the order they were appended
ChunksOf(hunk) == SelectSeq(chunks, LAMBDA c : c.hunk_header = hunk.header)

RawLinesOf(chunk_list) ==
  Flatten([j \in 1..Len(chunk_list) |-> RawLines(chunk_list[j])])

Returned_chunks == chunk_pc = "done"

CeilDiv(n, d) == (n + d - 1) \div d

\* C19: when chunk_file_diff returns, no chunk holds more than max_lines raw
\* lines; a hunk of at most max_lines lines has become exactly one chunk; a
\* hunk of n > max_lines lines has become ceil(n / max_lines) chunks that
\* are consecutive slices of the hunk, each but the last of exactly
\* max_lines lines.
C19_ChunkSizes ==
  Returned_chunks =>
    \A k \in 1..Len(fd.hunks) :
      LET hunk == fd.hunks[k]
          n == Len(hunk.lines)
          cs == ChunksOf(hunk)
      IN  /\ \A j \in 1..Len(cs) : Len(RawLines(cs[j])) <= max_lines
          /\ n <= max_lines => Len(cs) = 1
          /\ n > max_lines =>
               /\ Len(cs) = CeilDiv(n, max_lines)
               /\ \A j \in 1..(Len(cs) - 1) : Len(RawLines(cs[j])) = max_lines
               /\ \A j \in 1..Len(cs) :
                    RawLines(cs[j]) =
                      SubSeq(hunk.lines, (j - 1) * max_lines + 1,
                             IF j * max_lines <= n THEN j * max_lines ELSE n)

\* a hunk whose length is not a multiple of max_lines has been split, next
\* to a hunk that fitted
C19_Witness ==
  /\ Returned_chunks
  /\ max_lines >= 2
  /\ \E k \in 1..Len(fd.hunks) :
       /\ Len(fd.hunks[k].lines) > max_lines
       /\ Len(fd.hunks[k].lines) % max_lines # 0
  /\ \E k \in 1..Len(fd.hunks) : Len(fd.hunks[k].lines) <= max_lines

\* the added and context lines among a chunk's raw lines
NewLinesIn(chunk) == _count_new_lines(RawLines(chunk))

RECURSIVE NewLinesBefore(_, _)
NewLinesBefore(chunk_list, j) ==
  IF j <= 1 THEN 0
  ELSE NewLinesBefore(chunk_list, j - 1) + NewLinesIn(chunk_list[j - 1])

\* C20: when chunk_file_diff returns, every chunk's [start_line, end_line]
\* is the new-file range of the added and context lines it holds: it starts
\* at the hunk's new_start plus the added and context lines of the hunk's
\* earlier chunks, it ends after as many lines as the chunk holds,
\* start_line <= end_line, and the ranges of consecutive chunks of one hunk
\* do not overlap.
C20_LineRanges ==
  Returned_chunks =>
    \A k \in 1..Len(fd.hunks) :
      LET hunk == fd.hunks[k]
          cs == ChunksOf(hunk)
      IN  \A j \in 1..Len(cs) :
            /\ cs[j].start_line = hunk.new_start + NewLinesBefore(cs, j)
            /\ cs[j].end_line = cs[j].start_line + NewLinesIn(cs[j]) - 1
            /\ cs[j].start_line <= cs[j].end_line
            /\ j < Len(cs) => cs[j].end_line < cs[j + 1].start_line

\* =====================================================================
\* The tools on their own.  Each has a specification of its own that draws
\* its arguments from a bounded set and applies it; the run, the critic and
\* the chunker stay as constructed.
\* =====================================================================
pipeline_state ==
  <<dry_run, budget_expired, pc, idx, retry_count, exc, _state, data,
    result, exit_status, calls, call_log, executed, posted, jump_from,
    critic_state, chunker_state>>

PipelineIdle ==
  /\ dry_run = FALSE
  /\ budget_expired = FALSE
  /\ RunConstructed
  /\ critic_policy = DefaultPolicy
  /\ CriticConstructed
  /\ critic_pc = "idle"
  /\ ChunkerIdle

\* text.startswith(ch) for a one-character prefix
startswith(text, ch) == text # << >> /\ text[1] = ch

\* ---------------------------------------------------------------------
\* Line maps: tools/diff_utils.build_line_map and
\* scripts/diff_parser.get_diff_position_map
\* ---------------------------------------------------------------------
MaxTailHunkLines == 2   \* most raw lines in a file's second hunk

EmptyMap == [n \in {} |-> 0]

\* build_line_map, one line of a hunk: "+" and every line that is not "-"
\* get an entry and advance new_line
build_line_map_step(st, line) ==
  LET position == st.position + 1
  IN  IF startswith(line, "+")
      THEN [position |-> position, new_line |-> st.new_line + 1,
            pos_map |-> (st.new_line :> position) @@ st.pos_map]
      ELSE IF startswith(line, "-")
      THEN [st EXCEPT !.position = position]
      ELSE [position |-> position, new_line |-> st.new_line + 1,
            pos_map |-> (st.new_line :> position) @@ st.pos_map]

\* get_diff_position_map, one line of a hunk: "+" and " " get an entry; a
\* line that is none of "+", " ", "-" advances current_line without an entry
get_diff_position_map_step(st, line) ==
  LET position == st.position + 1
  IN  IF startswith(line, "+") \/ startswith(line, " ")
      THEN [position |-> position, new_line |-> st.new_line + 1,
            pos_map |-> (st.new_line :> position) @@ st.pos_map]
      ELSE IF startswith(line, "-")
      THEN [st EXCEPT !.position = position]
      ELSE [st EXCEPT !.position = position, !.new_line = st.new_line + 1]

RECURSIVE build_line_map_lines(_, _)
build_line_map_lines(st, text_lines) ==
  IF text_lines = << >> THEN st
  ELSE build_line_map_lines(build_line_map_step(st, Head(text_lines)), Tail(text_lines))

RECURSIVE build_line_map_hunks(_, _)
build_line_map_hunks(st, hunks) ==
  IF hunks = << >> THEN st
  ELSE build_line_map_hunks(
         build_line_map_lines([st EXCEPT !.position = st.position + 1,
                                         !.new_line = Head(hunks).new_start],
                              Head(hunks).lines),
         Tail(hunks))

RECURSIVE get_diff_position_map_lines(_, _)
get_diff_position_map_lines(st, text_lines) ==
  IF text_lines = << >> THEN st
  ELSE get_diff_position_map_lines(get_diff_position_map_step(st, Head(text_lines)),
                                   Tail(text_lines))

RECURSIVE get_diff_position_map_hunks(_, _)
get_diff_position_map_hunks(st, hunks) ==
  IF hunks = << >> THEN st
  ELSE get_diff_position_map_hunks(
         get_diff_position_map_lines([st EXCEPT !.position = st.position + 1,
                                                !.new_line = Head(hunks).new_start],
                                     Head(hunks).lines),
         Tail(hunks))

MapStart == [position |-> 0, new_line |-> 0, pos_map |-> EmptyMap]

\* added, removed, context, and the marker "\ No newline at end of file"
MapLineKinds == {<<"+", "a">>, <<"-", "b">>, <<" ", "c">>, <<"\\", "n">>}

\* the count a unified diff writes in a hunk header for the new file
HeaderNewCount(text_lines) ==
  Cardinality({p \in 1..Len(text_lines) :
                 startswith(text_lines[p], "+") \/ startswith(text_lines[p], " ")})

MapHunksAt(k, longest) ==
  {[header |-> "@@ hunk " \o ToString(k) \o " @@",
    new_start |-> 10 * k - 9,
    new_count |-> HeaderNewCount(text_lines),
    lines |-> text_lines] : text_lines \in SeqsUpTo(MapLineKinds, longest) \ {<< >>}}

MapFileDiffs ==
  {[filename |-> "a.py", hunks |-> hs] :
     hs \in {<<h>> : h \in MapHunksAt(1, MaxHunkLines)}
              \cup (MapHunksAt(1, MaxHunkLines) \X MapHunksAt(2, MaxTailHunkLines))}

OutsideLineMaps ==
  UNCHANGED <<pipeline_state, scan, planning, parsing, review_call, review_run, posting, resolving, graph, post_stage>>

LineMapInit ==
  /\ PipelineIdle
  /\ post_stage = << >>
  /\ graph = << >>
  /\ resolving = << >>
  /\ line_maps \in {[fd |-> f, pos_map |-> None, position_map |-> None] : f \in MapFileDiffs}
  /\ scan = << >>
  /\ planning = << >>
  /\ parsing = << >>
  /\ review_call = << >>
  /\ review_run = << >>
  /\ posting = << >>

build_line_map ==
  /\ line_maps.pos_map = None
  /\ line_maps' = [line_maps EXCEPT
       !.pos_map = Some(build_line_map_hunks(MapStart, line_maps.fd.hunks).pos_map)]
  /\ OutsideLineMaps

get_diff_position_map ==
  /\ line_maps.position_map = None
  /\ line_maps' = [line_maps EXCEPT
       !.position_map = Some(get_diff_position_map_hunks(MapStart, line_maps.fd.hunks).pos_map)]
  /\ OutsideLineMaps

LineMapNext == build_line_map \/ get_diff_position_map

LineMapSpec == LineMapInit /\ [][LineMapNext]_vars

\* hunks in ascending new-file order whose header ranges do not overlap
Ascending(hunks) ==
  \A k \in 1..(Len(hunks) - 1) :
    hunks[k].new_start + hunks[k].new_count - 1 < hunks[k + 1].new_start

\* the lines of a hunk that are added or context: every line not removed
KeptLines(hunk) == {p \in 1..Len(hunk.lines) : ~ startswith(hunk.lines[p], "-")}

\* new-file number of the p-th line of a hunk
NewLineNo(hunk, p) == hunk.new_start + _count_new_lines(SubSeq(hunk.lines, 1, p - 1))

RECURSIVE LinesBefore(_, _)
LinesBefore(hunks, k) ==
  IF k <= 1 THEN 0 ELSE LinesBefore(hunks, k - 1) + Len(hunks[k - 1].lines)

\* diff position of the p-th line of the k-th hunk: one per hunk header and
\* one per content line up to it
DiffPosition(hunks, k, p) == k + LinesBefore(hunks, k) + p

IsPositionMap(m, hunks) ==
  /\ DOMAIN m = UNION {{NewLineNo(hunks[k], p) : p \in KeptLines(hunks[k])} :
                        k \in 1..Len(hunks)}
  /\ \A k \in 1..Len(hunks) : \A p \in KeptLines(hunks[k]) :
       m[NewLineNo(hunks[k], p)] = DiffPosition(hunks, k, p)
  /\ \A a \in DOMAIN m : \A b \in DOMAIN m : a < b => m[a] < m[b]
  /\ \A k \in 1..Len(hunks) : \A p \in 1..Len(hunks[k].lines) :
       startswith(hunks[k].lines[p], "-") =>
         \A a \in DOMAIN m : m[a] # DiffPosition(hunks, k, p)

\* C21: for a FileDiff whose hunks are ascending and non-overlapping, each
\* position map built is strictly increasing, has exactly one entry for
\* every added or context line, keyed by its new-file line number and
\* holding its diff position (one per hunk header and per content line,
\* removed lines included), and has no entry for a removed line.
C21_PositionMap ==
  Ascending(line_maps.fd.hunks) =>
    /\ line_maps.pos_map # None =>
         IsPositionMap(line_maps.pos_map[1], line_maps.fd.hunks)
    /\ line_maps.position_map # None =>
         IsPositionMap(line_maps.position_map[1], line_maps.fd.hunks)

\* ---------------------------------------------------------------------
\* The prescan: reviewer._scan_for_secrets / _scan_unsafe_patterns as
\* review_plan applies them to one chunk, and scripts/security_scanner's
\* scan_diff_lines applied to the same lines
\* ---------------------------------------------------------------------
\* str.splitlines() of a text whose only line boundary is "\n": a final
\* empty piece is not a line
splitlines(text) ==
  LET pieces == SplitLines(text)
  IN  IF pieces[Len(pieces)] = << >> THEN SubSeq(pieces, 1, Len(pieces) - 1) ELSE pieces

\* line[1:]
Content(line) == SubSeq(line, 2, Len(line))

\* pat.search(content): "s" stands for text a secret pattern matches, "e"
\* for text the language's unsafe pattern matches
Search(pattern, content) == \E p \in 1..Len(content) : content[p] = pattern.matches

_SECRET_PATTERNS ==
  <<[matches |-> "s", severity |-> "error", message |-> "Potential hardcoded secret"]>>

_UNSAFE_PATTERNS ==
  <<[matches |-> "e", severity |-> "warn", message |-> "Bare except clause"]>>

ScanFinding(file, line, pattern) ==
  [file |-> file, line |-> line, severity |-> pattern.severity,
   category |-> "security", message |-> pattern.message]

\* the findings one line contributes under a pattern list; line_no is what
\* the scanner reports as the finding's line
RECURSIVE MatchesOf(_, _, _, _)
MatchesOf(patterns, line, filename, line_no) ==
  IF patterns = << >> THEN << >>
  ELSE (IF Search(Head(patterns), Content(line))
        THEN <<ScanFinding(filename, line_no, Head(patterns))>> ELSE << >>)
       \o MatchesOf(Tail(patterns), line, filename, line_no)

\* for i, line in enumerate(lines, start=1): added lines only, "line": i
RECURSIVE ScanAdded(_, _, _, _)
ScanAdded(patterns, text_lines, filename, i) ==
  IF i > Len(text_lines) THEN << >>
  ELSE (IF startswith(text_lines[i], "+")
        THEN MatchesOf(patterns, text_lines[i], filename, i) ELSE << >>)
       \o ScanAdded(patterns, text_lines, filename, i + 1)

_scan_for_secrets(text_lines, filename) == ScanAdded(_SECRET_PATTERNS, text_lines, filename, 1)

_scan_unsafe_patterns(text_lines, filename) == ScanAdded(_UNSAFE_PATTERNS, text_lines, filename, 1)

\* scan_diff_lines: current_line starts at start_line and advances on "+"
\* and " " lines; an added line is checked against both pattern lists
RECURSIVE scan_diff_lines(_, _, _)
scan_diff_lines(filename, diff_lines, current_line) ==
  IF diff_lines = << >> THEN << >>
  ELSE LET raw_line == Head(diff_lines)
       IN  (IF startswith(raw_line, "+")
            THEN MatchesOf(_SECRET_PATTERNS \o _UNSAFE_PATTERNS, raw_line, filename, current_line)
            ELSE << >>)
           \o scan_diff_lines(filename, Tail(diff_lines),
                IF startswith(raw_line, "+") \/ startswith(raw_line, " ")
                THEN current_line + 1 ELSE current_line)

\* added lines with a secret, an unsafe construct or neither; a removed and
\* a context line that hold a secret
ScanLineKinds == {<<"+", "s">>, <<"+", "e">>, <<"+", "a">>, <<"-", "s">>, <<" ", "s">>}

ScanStarts == {1, 5}

\* a hunk small enough to be one chunk, as chunk_file_diff turns it into a
\* DiffChunk, and the task's filename
ScanInputs ==
  {[filename |-> "config.py",
    lines |-> text_lines,
    chunk |-> DiffChunk("config.py", "@@ hunk @@", Join(text_lines), s,
                        s + _count_new_lines(text_lines) - 1),
    findings |-> None,
    security_findings |-> None] :
     text_lines \in SeqsUpTo(ScanLineKinds, MaxHunkLines) \ {<< >>}, s \in ScanStarts}

OutsideScan ==
  UNCHANGED <<pipeline_state, line_maps, planning, parsing, review_call, review_run, posting, resolving, graph, post_stage>>

ScanInit ==
  /\ PipelineIdle
  /\ post_stage = << >>
  /\ graph = << >>
  /\ resolving = << >>
  /\ scan \in ScanInputs
  /\ line_maps = << >>
  /\ planning = << >>
  /\ parsing = << >>
  /\ review_call = << >>
  /\ review_run = << >>
  /\ posting = << >>

\* review_plan, phase 1, for one chunk
prescan ==
  /\ scan.findings = None
  /\ LET lines == splitlines(scan.chunk.context)
     IN  scan' = [scan EXCEPT !.findings =
                    Some(_scan_for_secrets(lines, scan.filename)
                         \o _scan_unsafe_patterns(lines, scan.filename))]
  /\ OutsideScan

\* scan_file_diff's call for the same hunk
scan_hunk ==
  /\ scan.security_findings = None
  /\ scan' = [scan EXCEPT !.security_findings =
                Some(scan_diff_lines(scan.filename, scan.lines, scan.chunk.start_line))]
  /\ OutsideScan

ScanNext == prescan \/ scan_hunk

ScanSpec == ScanInit /\ [][ScanNext]_vars

\* the patterns that match added line p of the scanned lines
MatchingPatterns(p) ==
  {k \in 1..Len(_SECRET_PATTERNS \o _UNSAFE_PATTERNS) :
     /\ startswith(scan.lines[p], "+")
     /\ Search((_SECRET_PATTERNS \o _UNSAFE_PATTERNS)[k], Content(scan.lines[p]))}

\* new-file line number of line p of the scanned hunk
ScanLineNo(p) == scan.chunk.start_line + _count_new_lines(SubSeq(scan.lines, 1, p - 1))

\* every finding names the scanned file and the new-file number of an added
\* line that matched; each match of an added line is reported once, a
\* secret as an error; nothing else is reported
IsPrescanOf(found) ==
  /\ \A i \in 1..Len(found) :
       /\ found[i].file = scan.filename
       /\ \E p \in 1..Len(scan.lines) :
            /\ MatchingPatterns(p) # {}
            /\ found[i].line = ScanLineNo(p)
  /\ \A p \in 1..Len(scan.lines) : \A k \in MatchingPatterns(p) :
       Cardinality({i \in 1..Len(found) :
                      /\ found[i].line = ScanLineNo(p)
                      /\ found[i].message = (_SECRET_PATTERNS \o _UNSAFE_PATTERNS)[k].message
                      /\ found[i].severity = (_SECRET_PATTERNS \o _UNSAFE_PATTERNS)[k].severity}) = 1
  /\ Len(found) = Cardinality({<<p, k>> \in (1..Len(scan.lines)) \X (1..2) :
                                 k \in MatchingPatterns(p)})

\* C22: every finding of the prescan of a chunk names the scanned file and
\* the new-file line number of the added line that matched (the chunk's new
\* start plus the added and context lines before it); an added line
\* matching one secret pattern gives exactly one error finding; removed and
\* context lines give none.
C22_PrescanLines ==
  scan.findings # None => IsPrescanOf(scan.findings[1])

\* ---------------------------------------------------------------------
\* The planner: PlannerAgent.plan over the files parse_unified_diff returned
\* ---------------------------------------------------------------------
MaxPlanFiles == 3   \* most files in one diff handed to the planner
MaxFilesCap == 2    \* largest max_files_per_run the planner is configured with

\* _ext(filename), on the file names of the model
_ext(filename) ==
  CASE filename \in {"a.py", "d.py"} -> ".py"
    [] filename = "b.lock" -> ".lock"
    [] filename = "e.tf" -> ".tf"
    [] OTHER -> ""

\* fnmatch(filename, pat) for the patterns of the form "*<extension>"
fnmatch(filename, pat) == _ext(filename) # "" /\ pat = "*" \o _ext(filename)

should_skip_file(filename, skip_patterns) ==
  \E k \in 1..Len(skip_patterns) : fnmatch(filename, skip_patterns[k])

\* variant: deleted files are kept
filter_files_keeps_deleted(files, skip_patterns) ==
  SelectSeq(files, LAMBDA f :
    ~ f.is_binary /\ ~ should_skip_file(f.filename, skip_patterns))

filter_files(files, skip_patterns) ==
  SelectSeq(files, LAMBDA f :
    ~ f.is_binary /\ ~ f.is_deleted /\ ~ should_skip_file(f.filename, skip_patterns))

\* variant: the cap keeps the last files
CapFiles_keeps_last(filtered, cap) ==
  IF Len(filtered) > cap THEN SubSeq(filtered, Len(filtered) - cap + 1, Len(filtered))
  ELSE filtered

\* filtered[: self.max_files] when len(filtered) > self.max_files
CapFiles(filtered, cap) ==
  IF Len(filtered) > cap THEN SubSeq(filtered, 1, cap) ELSE filtered

_DEFAULT_LANG_MAP == [e \in {".tf", ".py"} |-> IF e = ".tf" THEN "terraform" ELSE "python"]

detect_language(filename) ==
  IF _ext(filename) \in DOMAIN _DEFAULT_LANG_MAP THEN _DEFAULT_LANG_MAP[_ext(filename)]
  ELSE "generic"

\* chunk_file_diff(f, limit) as a function of its arguments
RECURSIVE SegmentsOf(_, _, _, _)
SegmentsOf(filename, hunk, limit, from) ==
  IF from > Len(hunk.lines) THEN << >>
  ELSE LET upto == IF from + limit - 1 <= Len(hunk.lines)
                   THEN from + limit - 1 ELSE Len(hunk.lines)
           segment == SubSeq(hunk.lines, from, upto)
           start == hunk.new_start + _count_new_lines(SubSeq(hunk.lines, 1, from - 1))
           end == start + _count_new_lines(segment) - 1
       IN  <<DiffChunk(filename, hunk.header, Join(segment), start, Max(start, end))>>
           \o SegmentsOf(filename, hunk, limit, upto + 1)

RECURSIVE ChunksOfHunks(_, _, _)
ChunksOfHunks(filename, hunks, limit) ==
  IF hunks = << >> THEN << >>
  ELSE (IF Len(Head(hunks).lines) <= limit
        THEN <<DiffChunk(filename, Head(hunks).header, Join(Head(hunks).lines),
                         Head(hunks).new_start,
                         Head(hunks).new_start + Head(hunks).new_count - 1)>>
        ELSE SegmentsOf(filename, Head(hunks), limit, 1))
       \o ChunksOfHunks(filename, Tail(hunks), limit)

FileTask(f, cfg) ==
  LET all_chunks == ChunksOfHunks(f.filename, f.hunks, cfg.chunk_max_lines)
  IN  [filename |-> f.filename,
       language |-> detect_language(f.filename),
       chunks |-> IF Len(all_chunks) > cfg.max_chunks_per_file
                  THEN SubSeq(all_chunks, 1, cfg.max_chunks_per_file) ELSE all_chunks]

LinterFor == [l \in {"terraform", "python"} |-> IF l = "terraform" THEN "terraform" ELSE "black"]

\* sorted(linter_set)
SortedLinters(linter_set) ==
  SelectSeq(<<"ansible-lint", "black", "shellcheck", "terraform", "yamllint">>,
            LAMBDA l : l \in linter_set)

RECURSIVE SumChunks(_)
SumChunks(tasks) ==
  IF tasks = << >> THEN 0 ELSE Len(Head(tasks).chunks) + SumChunks(Tail(tasks))

EmptyPlan ==
  [file_tasks |-> << >>, total_chunks |-> 0, estimated_llm_calls |-> 0,
   linters_to_run |-> << >>, skip_review |-> FALSE, skip_reason |-> ""]

PlanOf(all_files, cfg) ==
  LET filtered == filter_files(all_files, cfg.skip_patterns)
      capped == CapFiles(filtered, cfg.max_files)
      tasks == [k \in 1..Len(capped) |-> FileTask(capped[k], cfg)]
  IN  IF filtered = << >>
      THEN [EmptyPlan EXCEPT !.skip_review = TRUE,
                             !.skip_reason = "No reviewable files after filtering."]
      ELSE [EmptyPlan EXCEPT
              !.file_tasks = tasks,
              !.total_chunks = SumChunks(tasks),
              !.estimated_llm_calls = SumChunks(tasks) + 1,
              !.linters_to_run = SortedLinters(
                 {LinterFor[tasks[k].language] :
                    k \in {j \in 1..Len(tasks) : tasks[j].language \in DOMAIN LinterFor}})]

PlanHunk(n) ==
  [header |-> "@@ -0,0 +1," \o ToString(n) \o " @@", new_start |-> 1, new_count |-> n,
   lines |-> [p \in 1..n |-> <<"+", "a">>]]

FilePool ==
  { [filename |-> "a.py", is_binary |-> FALSE, is_deleted |-> FALSE, hunks |-> <<PlanHunk(1)>>],
    [filename |-> "b.lock", is_binary |-> FALSE, is_deleted |-> FALSE, hunks |-> <<PlanHunk(1)>>],
    [filename |-> "c.bin", is_binary |-> TRUE, is_deleted |-> FALSE, hunks |-> << >>],
    [filename |-> "d.py", is_binary |-> FALSE, is_deleted |-> TRUE, hunks |-> << >>],
    [filename |-> "e.tf", is_binary |-> FALSE, is_deleted |-> FALSE, hunks |-> <<PlanHunk(3)>>] }

PlannerConfigs ==
  {[max_files |-> m, max_chunks_per_file |-> c, chunk_max_lines |-> MaxChunkLines,
    skip_patterns |-> <<"*.lock", "*.min.js">>] : m \in 1..MaxFilesCap, c \in {1, 10}}

OutsidePlanning ==
  UNCHANGED <<pipeline_state, line_maps, scan, parsing, review_call, review_run, posting, resolving, graph, post_stage>>

PlanInit ==
  /\ PipelineIdle
  /\ post_stage = << >>
  /\ graph = << >>
  /\ resolving = << >>
  /\ planning \in {[cfg |-> c, all_files |-> fs, result |-> None, tools_run |-> None] :
                     c \in PlannerConfigs, fs \in SeqsUpTo(FilePool, MaxPlanFiles)}
  /\ line_maps = << >>
  /\ scan = << >>
  /\ parsing = << >>
  /\ review_call = << >>
  /\ review_run = << >>
  /\ posting = << >>

plan ==
  /\ planning.result = None
  /\ planning' = [planning EXCEPT !.result = Some(PlanOf(planning.all_files, planning.cfg))]
  /\ OutsidePlanning

\* the linters in the order run_all_linters looks at them
LinterTools == <<"terraform", "yamllint", "ansible-lint", "black", "shellcheck">>

\* run_all_linters(changed_files, enabled): the tools whose runner it calls;
\* en = enabled or {}, and each tool runs `if en.get(tool, True)`
run_all_linters(changed_files, enabled) ==
  LET en == enabled
  IN SelectSeq(LinterTools, LAMBDA tool : IF tool \in DOMAIN en THEN en[tool] ELSE TRUE)

\* _do_run_linters: nothing on a skip plan, else
\* enabled = {tool: True for tool in self._plan.linters_to_run}
plan_run_linters ==
  /\ planning.result # None
  /\ planning.tools_run = None
  /\ LET made == planning.result[1]
         enabled == [tool \in {made.linters_to_run[k] : k \in 1..Len(made.linters_to_run)}
                       |-> TRUE]
         changed_files == [k \in 1..Len(made.file_tasks) |-> made.file_tasks[k].filename]
     IN planning' = [planning EXCEPT
                       !.tools_run = IF made.skip_review THEN Some(<< >>)
                                     ELSE Some(run_all_linters(changed_files, enabled))]
  /\ OutsidePlanning

PlanNext == plan \/ plan_run_linters

PlanSpec == PlanInit /\ [][PlanNext]_vars

\* the files that are not binary, not removed and match no skip pattern
Survivors ==
  SelectSeq(planning.all_files, LAMBDA f :
    /\ ~ f.is_binary
    /\ ~ f.is_deleted
    /\ \A k \in 1..Len(planning.cfg.skip_patterns) :
         ~ fnmatch(f.filename, planning.cfg.skip_patterns[k]))

Planned == planning.result # None

Min(a, b) == IF a <= b THEN a ELSE b

\* C24: the plan's FileTasks are the first min(n, max_files_per_run) of the
\* n surviving files, one task per file in their original order, and a
\* diff with more surviving files than the cap is still not a skip plan.
C24_FileCap ==
  Planned =>
    LET p == planning.result[1]
        n == Len(Survivors)
        kept == Min(n, planning.cfg.max_files)
    IN  /\ Len(p.file_tasks) = kept
        /\ \A k \in 1..kept : p.file_tasks[k].filename = Survivors[k].filename
        /\ n > planning.cfg.max_files => ~ p.skip_review

\* three surviving files, the first two different, planned under a cap of two
C24_Witness ==
  /\ Planned
  /\ Len(Survivors) = 3
  /\ planning.cfg.max_files = 2
  /\ Survivors[1].filename # Survivors[2].filename
  /\ Survivors[3].filename # Survivors[1].filename
  /\ Len(planning.result[1].file_tasks) = 2

\* ---------------------------------------------------------------------
\* The parser: tools/diff_utils.parse_unified_diff, one input line per step.
\* A line is a sequence of pieces of text; startswith looks at its first
\* piece, and a hunk header carries the groups HUNK_HEADER_RE captures.
\* ---------------------------------------------------------------------
MaxDiffLines == 4   \* most lines in the raw diff handed to the parser

FileMarker == <<"diff --git", " a/", "x.py", " b/", "x.py">>
BinaryMarker == <<"Binary files", " a/x.py and b/x.py differ">>
DeletedMarker == <<"deleted file mode", " 100644">>
\* "@@ -1 +1 @@" and "@@ -1 +1,2 @@": old_start, old_count, new_start, new_count
HeaderShort == <<"@@", <<1>>, << >>, <<1>>, << >> >>
HeaderCounted == <<"@@", <<1>>, << >>, <<1>>, <<2>> >>
AddedLine == <<"+", "a">>
RemovedLine == <<"-", "b">>
\* "--- x": the old-path line of a file, or the removed line "-- x" of a hunk
DashesLine == <<"-", "-", "-", " x">>
NoNewlineMarker == <<"\\", " No newline at end of file">>

DiffLineKinds ==
  {FileMarker, BinaryMarker, DeletedMarker, HeaderShort, HeaderCounted,
   AddedLine, RemovedLine, DashesLine, NoNewlineMarker}

\* line.startswith("---") or line.startswith("+++")
IsPathLine(line) ==
  /\ Len(line) >= 3
  /\ \/ line[1] = "-" /\ line[2] = "-" /\ line[3] = "-"
     \/ line[1] = "+" /\ line[2] = "+" /\ line[3] = "+"

\* HUNK_HEADER_RE.match(line)
IsHunkHeader(line) == startswith(line, "@@")

\* int(m.group(n) or 1) for the optional groups, int(m.group(n)) for the others
GroupOr1(group) == IF group = << >> THEN 1 ELSE group[1]

\* parts = line.split(" b/", 1); parts[1] if len(parts) == 2 else ""
FileNameOf(line) ==
  IF \E p \in 1..(Len(line) - 1) : line[p] = " b/"
  THEN line[(CHOOSE p \in 1..(Len(line) - 1) :
               line[p] = " b/" /\ \A q \in 1..(p - 1) : line[q] # " b/") + 1]
  ELSE ""

NewFileDiff(filename) ==
  [filename |-> filename, hunks |-> << >>, is_binary |-> FALSE,
   is_new |-> FALSE, is_deleted |-> FALSE]

NewDiffHunk(line) ==
  [header |-> line, old_start |-> line[2][1], old_count |-> GroupOr1(line[3]),
   new_start |-> line[4][1], new_count |-> GroupOr1(line[5]), lines |-> << >>]

\* variant: a file that has no hunk yet is replaced by the next file
OnFileMarker_drops_empty(files, line) ==
  IF files # << >> /\ files[Len(files)].hunks = << >>
  THEN [files EXCEPT ![Len(files)] = NewFileDiff(FileNameOf(line))]
  ELSE Append(files, NewFileDiff(FileNameOf(line)))

\* current_file = FileDiff(filename=fname); files.append(current_file)
OnFileMarker(files, line) == Append(files, NewFileDiff(FileNameOf(line)))

\* the body of "for line in raw_diff.splitlines()"; current_file is the
\* last of files, hunk_open says current_hunk is not None, and then
\* current_hunk is the last hunk of current_file
parse_step(st, line) ==
  LET last == Len(st.files)
  IN  IF startswith(line, "diff --git")
      THEN [files |-> OnFileMarker(st.files, line), hunk_open |-> FALSE]
      ELSE IF st.files = << >> THEN st
      ELSE IF startswith(line, "Binary files")
      THEN [st EXCEPT !.files[last].is_binary = TRUE]
      ELSE IF startswith(line, "new file mode")
      THEN [st EXCEPT !.files[last].is_new = TRUE]
      ELSE IF startswith(line, "deleted file mode")
      THEN [st EXCEPT !.files[last].is_deleted = TRUE]
      ELSE IF IsHunkHeader(line)
      THEN [files |-> [st.files EXCEPT ![last].hunks = Append(@, NewDiffHunk(line))],
            hunk_open |-> TRUE]
      ELSE IF IsPathLine(line) THEN st
      ELSE IF st.hunk_open
      THEN [st EXCEPT !.files[last].hunks[Len(st.files[last].hunks)].lines = Append(@, line)]
      ELSE st

OutsideParsing ==
  UNCHANGED <<pipeline_state, line_maps, scan, planning, review_call, review_run, posting, resolving, graph, post_stage>>

ParseInit ==
  /\ PipelineIdle
  /\ post_stage = << >>
  /\ graph = << >>
  /\ resolving = << >>
  /\ parsing \in {[lines |-> ls, pos |-> 1, files |-> << >>, hunk_open |-> FALSE,
                   returned |-> FALSE] : ls \in SeqsUpTo(DiffLineKinds, MaxDiffLines)}
  /\ line_maps = << >>
  /\ scan = << >>
  /\ planning = << >>
  /\ review_call = << >>
  /\ review_run = << >>
  /\ posting = << >>

parse_line ==
  /\ ~ parsing.returned
  /\ parsing.pos <= Len(parsing.lines)
  /\ LET st == parse_step([files |-> parsing.files, hunk_open |-> parsing.hunk_open],
                          parsing.lines[parsing.pos])
     IN  parsing' = [parsing EXCEPT !.pos = @ + 1, !.files = st.files,
                                    !.hunk_open = st.hunk_open]
  /\ OutsideParsing

\* return files
parse_return ==
  /\ ~ parsing.returned
  /\ parsing.pos > Len(parsing.lines)
  /\ parsing' = [parsing EXCEPT !.returned = TRUE]
  /\ OutsideParsing

ParseNext == parse_line \/ parse_return

ParseSpec == ParseInit /\ [][ParseNext]_vars

\* ---------------------------------------------------------------------
\* Properties of the parser
\* ---------------------------------------------------------------------
\* where the input has its file-start markers
MarkerPositions == {p \in 1..Len(parsing.lines) : parsing.lines[p] = FileMarker}

\* the position of the k-th file-start marker
MarkerAt(k) ==
  CHOOSE p \in MarkerPositions : Cardinality({q \in MarkerPositions : q <= p}) = k

\* the input lines of the k-th file: after its marker, up to the next marker
Region(k) ==
  LET from == MarkerAt(k) + 1
      upto == IF k < Cardinality(MarkerPositions) THEN MarkerAt(k + 1) - 1
              ELSE Len(parsing.lines)
  IN  SubSeq(parsing.lines, from, upto)

HeaderPositions(region) == {p \in 1..Len(region) : IsHunkHeader(region[p])}

HeaderAt(region, j) ==
  CHOOSE p \in HeaderPositions(region) :
    Cardinality({q \in HeaderPositions(region) : q <= p}) = j

\* the lines of a region after its j-th hunk header, up to the next header
Run(region, j) ==
  LET from == HeaderAt(region, j) + 1
      upto == IF j < Cardinality(HeaderPositions(region)) THEN HeaderAt(region, j + 1) - 1
              ELSE Len(region)
  IN  SubSeq(region, from, upto)

Parsed == parsing.returned

IsContentLine(line) == startswith(line, "+") \/ startswith(line, "-")

WellFormedRegion(region) ==
  LET heads == HeaderPositions(region)
  IN  /\ \A p \in 1..Len(region) :
           (\A h \in heads : p < h) => region[p] \in {DeletedMarker, DashesLine}
      /\ region # << >> /\ region[1] = BinaryMarker => Len(region) = 1
      /\ \A j \in 1..Cardinality(heads) :
           LET run == Run(region, j)
           IN  /\ run # << >>
               /\ IsContentLine(run[1])
               /\ \A p \in 1..Len(run) : IsContentLine(run[p]) \/ run[p] = NoNewlineMarker
               /\ region[HeaderAt(region, j)][5] =
                    IF Cardinality({p \in 1..Len(run) : startswith(run[p], "+")}) = 1
                    THEN << >>
                    ELSE <<Cardinality({p \in 1..Len(run) : startswith(run[p], "+")})>>

WellFormedDiff ==
  /\ parsing.lines # << >>
  /\ parsing.lines[1] = FileMarker
  /\ \A k \in 1..Cardinality(MarkerPositions) :
       \/ Region(k) = <<BinaryMarker>>
       \/ WellFormedRegion(Region(k))

\* C26: for a well-formed diff, each parsed hunk's stored lines are exactly
\* the content lines that follow its header in the input, and the header's
\* new count is the number of stored lines that are added or context.
C26_HunkContent ==
  Parsed /\ WellFormedDiff =>
    \A k \in 1..Len(parsing.files) :
      \A j \in 1..Len(parsing.files[k].hunks) :
        LET hunk == parsing.files[k].hunks[j]
        IN  /\ hunk.lines = Run(Region(k), j)
            /\ hunk.new_count = _count_new_lines(hunk.lines)

\* the file being parsed is binary and the step does not start a new file
BinaryKeeps ==
  (/\ parsing.files # << >>
   /\ parsing.files[Len(parsing.files)].is_binary
   /\ parsing.pos <= Len(parsing.lines)
   /\ parsing.lines[parsing.pos] # FileMarker)
  => parsing'.files[Len(parsing.files)].hunks = parsing.files[Len(parsing.files)].hunks

\* C27: once a binary marker has been seen for a file, its FileDiff has the
\* binary flag set and gains no hunk and no line until the next file-start
\* marker.
C27_BinaryStopsAccumulation == [][BinaryKeeps]_vars

\* ---------------------------------------------------------------------
\* The review call: tools/llm_client.LLMClient.review_chunk, one step per
\* call of _call_llm
\* ---------------------------------------------------------------------
MaxItems == 2   \* most items in one JSON array the reviewer answers with

REQUIRED_ISSUE_FIELDS == {"file", "line", "severity", "message"}
VALID_SEVERITIES == {"info", "warn", "error"}

\* A JSON value is tagged with its Python type; a str is its characters.
JsonStr(chars) == [type |-> "str", value |-> chars]
JsonInt(n) == [type |-> "int", value |-> n]

GoodItem ==
  [type |-> "dict",
   value |-> [k \in REQUIRED_ISSUE_FIELDS |->
                CASE k = "file" -> JsonStr(<<"a", ".", "p", "y">>)
                  [] k = "line" -> JsonInt(3)
                  [] k = "severity" -> JsonStr("warn")
                  [] k = "message" -> JsonStr(<<"m">>)]]

\* the items a response can hold: a good one, one without "message", one
\* with an unknown severity, one whose line is a string, one whose message
\* is blank, and one that is not an object
ItemPool ==
  { GoodItem,
    [GoodItem EXCEPT !.value = [k \in REQUIRED_ISSUE_FIELDS \ {"message"} |-> GoodItem.value[k]]],
    [GoodItem EXCEPT !.value.severity = JsonStr("critical")],
    [GoodItem EXCEPT !.value.line = JsonStr(<<"3">>)],
    [GoodItem EXCEPT !.value.message = JsonStr(<<" ">>)],
    JsonStr(<<"x">>) }

\* what the model can answer: prose without an array, text whose bracketed
\* part is not JSON, or a JSON array of items
Responses ==
  {[text |-> "prose", array |-> << >>], [text |-> "broken", array |-> << >>]}
    \cup {[text |-> "array", array |-> a] : a \in SeqsUpTo(ItemPool, MaxItems)}

\* _JSON_ARRAY_RE.search, json.loads: [] when nothing matches or it fails to load
extract_json_array(raw) == IF raw.text = "array" THEN raw.array ELSE << >>

validate_issue(item) ==
  /\ item.type = "dict"
  /\ \A key \in REQUIRED_ISSUE_FIELDS : key \in DOMAIN item.value
  /\ item.value.severity.type = "str"
  /\ item.value.severity.value \in VALID_SEVERITIES
  /\ item.value.line.type = "int"
  /\ item.value.message.type = "str"
  /\ strip(item.value.message.value) # << >>

validate_issues(raw) == SelectSeq(raw, LAMBDA i : validate_issue(i))

OutsideReviewCall ==
  UNCHANGED <<pipeline_state, line_maps, scan, planning, parsing, review_run, posting, resolving, graph, post_stage>>

ReviewCallInit ==
  /\ PipelineIdle
  /\ post_stage = << >>
  /\ graph = << >>
  /\ resolving = << >>
  /\ review_call = [at |-> "start", received |-> << >>, reprompts |-> 0, valid |-> << >>]
  /\ line_maps = << >>
  /\ scan = << >>
  /\ planning = << >>
  /\ parsing = << >>
  /\ review_run = << >>
  /\ posting = << >>

\* raw = self._call_llm(...), up to the decision to re-prompt
review_chunk_call ==
  /\ review_call.at = "start"
  /\ \/ \E raw \in Responses :
          LET issues == extract_json_array(raw)
              valid == validate_issues(issues)
          IN  review_call' =
                [at |-> IF issues # << >> /\ valid = << >> THEN "repair" ELSE "returned",
                 received |-> <<raw>>, reprompts |-> 0, valid |-> valid]
     \/ review_call' = [review_call EXCEPT !.at = "raised"]
  /\ OutsideReviewCall

\* raw2 = self._call_llm(system_prompt, repair_prompt, ...); return valid
review_chunk_repair ==
  /\ review_call.at = "repair"
  /\ \/ \E raw2 \in Responses :
          review_call' =
            [at |-> "returned", received |-> Append(review_call.received, raw2),
             reprompts |-> 1, valid |-> validate_issues(extract_json_array(raw2))]
     \/ review_call' = [review_call EXCEPT !.at = "raised", !.reprompts = 1]
  /\ OutsideReviewCall

ReviewCallNext == review_chunk_call \/ review_chunk_repair

ReviewCallSpec == ReviewCallInit /\ [][ReviewCallNext]_vars

\* the schema: file, line, severity and message present, a known severity,
\* an integer line, a message that is not blank
PassesSchema(item) ==
  /\ item.type = "dict"
  /\ REQUIRED_ISSUE_FIELDS \subseteq DOMAIN item.value
  /\ item.value.severity \in {JsonStr(s) : s \in {"info", "warn", "error"}}
  /\ item.value.line.type = "int"
  /\ item.value.message.type = "str"
  /\ \E p \in 1..Len(item.value.message.value) : item.value.message.value[p] # " "

Unparseable(raw) == raw.text # "array"

\* a response that parses to items none of which passes the schema
Invalid(raw) ==
  /\ raw.text = "array"
  /\ raw.array # << >>
  /\ \A p \in 1..Len(raw.array) : ~ PassesSchema(raw.array[p])

\* C28: review_chunk returns only findings that pass the schema; when the
\* first response is invalid or unparseable exactly one repair re-prompt is
\* issued; and when the repaired response is invalid or unparseable too,
\* review_chunk returns no finding instead of failing.
C28_ReviewChunkRepair ==
  /\ review_call.at = "returned" =>
       \A p \in 1..Len(review_call.valid) : PassesSchema(review_call.valid[p])
  /\ review_call.reprompts <= 1
  /\ (/\ review_call.at \in {"returned", "raised"}
      /\ review_call.received # << >>
      /\ Invalid(review_call.received[1]) \/ Unparseable(review_call.received[1]))
     => review_call.reprompts = 1
  /\ (/\ Len(review_call.received) = 2
      /\ Invalid(review_call.received[2]) \/ Unparseable(review_call.received[2]))
     => review_call.at = "returned" /\ review_call.valid = << >>

\* ---------------------------------------------------------------------
\* The review: ReviewerAgent.review_plan, one step per phase and per chunk
\* ---------------------------------------------------------------------
MaxRunChunks == 2   \* most chunks in the plan handed to review_plan

RunFinding(chunk_no, severity, message) ==
  [file |-> "a.py", line |-> chunk_no, severity |-> severity, message |-> message]

\* what the prescan of chunk k can add
PrescanOutputs(k) == {<< >>, <<RunFinding(k, "error", "Potential hardcoded secret")>>}

\* what llm.review_chunk can return for chunk k
ChunkOutputs(k) ==
  {<< >>} \cup {<<RunFinding(k, s, "m")>> : s \in {"error", "warn", "info"}}

CountSeverity(issues, severity) ==
  Cardinality({k \in 1..Len(issues) : issues[k].severity = severity})

\* the text of _fallback_summary, as the values its template is filled with
_fallback_summary(issues, pr) ==
  <<"## AI Code Review Summary", pr.title, pr.pr_number, Len(issues),
    CountSeverity(issues, "error"), CountSeverity(issues, "warn"),
    CountSeverity(issues, "info"),
    "LLM summary generation failed; this is an auto-generated fallback.">>

\* variant: the failure of the summary call is passed on to the caller
SummaryFailed_raises(run) == [run EXCEPT !.at = "raised", !.summary_failed = TRUE]

\* except Exception: summary = self._fallback_summary(all_issues, plan.pr)
SummaryFailed(run) ==
  [run EXCEPT !.at = "returned", !.summary_failed = TRUE,
              !.summary = _fallback_summary(run.all_issues, run.pr)]

OutsideReviewRun ==
  UNCHANGED <<pipeline_state, line_maps, scan, planning, parsing, review_call, posting, resolving, graph, post_stage>>

ReviewRunInit ==
  /\ PipelineIdle
  /\ post_stage = << >>
  /\ graph = << >>
  /\ resolving = << >>
  /\ review_run \in {[chunks |-> n, pr |-> [title |-> "t", pr_number |-> 7],
                      all_issues |-> << >>, gathered |-> << >>, next_chunk |-> 1,
                      prescanned |-> << >>, reviewed |-> << >>,
                      at |-> "prescan", summary |-> NoValue, summary_failed |-> FALSE] :
                       n \in 1..MaxRunChunks}
  /\ line_maps = << >>
  /\ scan = << >>
  /\ planning = << >>
  /\ parsing = << >>
  /\ review_call = << >>
  /\ posting = << >>

\* the wall clock runs while review_plan does: budget.expired becomes true
ReviewClock ==
  /\ review_run.at \in {"prescan", "review"}
  /\ ~ budget_expired
  /\ budget_expired' = TRUE
  /\ UNCHANGED <<dry_run, pc, idx, retry_count, exc, _state, data, result, exit_status,
                 calls, call_log, executed, posted, jump_from, critic_state, chunker_state,
                 tools_state>>

\* phase 1: the prescan of every chunk, in plan order
review_prescan ==
  /\ review_run.at = "prescan"
  /\ \E found \in [1..review_run.chunks -> UNION {PrescanOutputs(k) : k \in 1..MaxRunChunks}] :
       /\ \A k \in 1..review_run.chunks : found[k] \in PrescanOutputs(k)
       /\ review_run' = [review_run EXCEPT !.at = "review",
                                           !.all_issues = Flatten(found),
                                           !.gathered = Flatten(found),
                                           !.prescanned = found]
  /\ OutsideReviewRun

\* variant: a failed reviewer call leaves the loop
ChunkFailed_leaves_loop(run) ==
  [run EXCEPT !.at = "summarize", !.reviewed = Append(@, None)]

\* except Exception: logger.error(...), and on to the next chunk
ChunkFailed(run) ==
  [run EXCEPT !.next_chunk = @ + 1, !.reviewed = Append(@, None)]

\* phase 2, one chunk: `if budget and budget.expired: break`, or review_chunk
\* returns issues, or it raises and the error is logged
review_one_chunk ==
  /\ review_run.at = "review"
  /\ review_run.next_chunk <= review_run.chunks
  /\ \/ /\ budget_expired
        /\ review_run' = [review_run EXCEPT !.at = "summarize"]
     \/ /\ ~ budget_expired
        /\ \E issues \in ChunkOutputs(review_run.next_chunk) :
             review_run' = [review_run EXCEPT !.all_issues = @ \o issues,
                                              !.gathered = @ \o issues,
                                              !.reviewed = Append(@, Some(issues)),
                                              !.next_chunk = @ + 1]
     \/ /\ ~ budget_expired
        /\ review_run' = ChunkFailed(review_run)
  /\ OutsideReviewRun

review_chunks_done ==
  /\ review_run.at = "review"
  /\ review_run.next_chunk > review_run.chunks
  /\ review_run' = [review_run EXCEPT !.at = "summarize"]
  /\ OutsideReviewRun

\* phase 3: llm.summarize_pr returns a text or raises; return all_issues, summary
review_summarize ==
  /\ review_run.at = "summarize"
  /\ \/ review_run' = [review_run EXCEPT !.at = "returned", !.summary = "llm summary"]
     \/ review_run' = SummaryFailed(review_run)
  /\ OutsideReviewRun

ReviewRunNext ==
  \/ ReviewClock
  \/ review_prescan
  \/ review_one_chunk
  \/ review_chunks_done
  \/ review_summarize

ReviewRunSpec == ReviewRunInit /\ [][ReviewRunNext]_vars

\* C29: when the summary call has failed, review_plan has returned (it has
\* not raised, so the stage is not retried or failed), with every finding
\* gathered and with the templated summary made of the PR's title and
\* number and the findings' total and per-severity counts.
C29_SummaryFallback ==
  review_run.summary_failed =>
    /\ review_run.at = "returned"
    /\ review_run.all_issues = review_run.gathered
    /\ review_run.summary =
         <<"## AI Code Review Summary", review_run.pr.title, review_run.pr.pr_number,
           Len(review_run.gathered),
           Cardinality({k \in 1..Len(review_run.gathered) : review_run.gathered[k].severity = "error"}),
           Cardinality({k \in 1..Len(review_run.gathered) : review_run.gathered[k].severity = "warn"}),
           Cardinality({k \in 1..Len(review_run.gathered) : review_run.gathered[k].severity = "info"}),
           "LLM summary generation failed; this is an auto-generated fallback.">>

\* the summary call failed after a prescan finding and two reviewed chunks
C29_Witness ==
  /\ review_run.summary_failed
  /\ review_run.at = "returned"
  /\ Len(review_run.all_issues) = 3
  /\ \E k \in 1..3 : review_run.all_issues[k].severity = "warn"

\* ---------------------------------------------------------------------
\* Posting: CommentAgent.post_results of two review runs on one pull
\* request (dry_run off), one step per call to the hosting API
\* ---------------------------------------------------------------------
MaxPostIssues == 2   \* most findings one run posts

PostRuns == {1, 2}

DEFAULT_SUMMARY_MARKER == "<!-- AI-REVIEW-SUMMARY -->"

\* an issue comment's body: the marker line it starts with, if any, and its text
SummaryBody(text) == [marker |-> DEFAULT_SUMMARY_MARKER, text |-> text]
HumanComment == [marker |-> NoValue, text |-> "looks good"]

PostHashes == {"h1", "h2"}

\* the findings a run posts: distinct hashes, as the critic leaves them
PostIssueLists ==
  {l \in SeqsUpTo(PostHashes, MaxPostIssues) :
     \A p \in 1..Len(l) : \A q \in 1..Len(l) : p # q => l[p] # l[q]}

\* find_bot_comment: the id of the first comment whose body holds the marker
find_bot_comment(comments, marker) ==
  IF \E c \in 1..Len(comments) : comments[c].marker = marker
  THEN Some(CHOOSE c \in 1..Len(comments) :
              /\ comments[c].marker = marker
              /\ \A d \in 1..(c - 1) : comments[d].marker # marker)
  ELSE None

\* the inline comments post_review creates: one per finding, its body
\* ending in the finding's hash marker
ReviewComments(issues, r) ==
  [k \in 1..Len(issues) |-> [finding |-> issues[k], carries_hash |-> TRUE, run |-> r]]

\* the comments _post_individual_comments creates for the findings whose
\* call succeeded: their body has no hash marker
IndividualComments(issues, succeeded, r) ==
  LET kept == SelectSeq(issues, LAMBDA h : h \in succeeded)
  IN  [k \in 1..Len(kept) |-> [finding |-> kept[k], carries_hash |-> FALSE, run |-> r]]

OutsidePosting ==
  UNCHANGED <<pipeline_state, line_maps, scan, planning, parsing, review_call, review_run, resolving, graph, post_stage>>

PostInit ==
  /\ PipelineIdle
  /\ post_stage = << >>
  /\ graph = << >>
  /\ resolving = << >>
  /\ posting \in
       {[comments |-> cs, inline |-> << >>,
         runs |-> [r \in PostRuns |->
                     [at |-> "find", issues |-> IF r = 1 THEN i1 ELSE i2,
                      existing_id |-> None]]] :
          cs \in {<< >>, <<HumanComment>>}, i1 \in PostIssueLists, i2 \in PostIssueLists}
  /\ line_maps = << >>
  /\ scan = << >>
  /\ planning = << >>
  /\ parsing = << >>
  /\ review_call = << >>
  /\ review_run = << >>

\* existing_id = self.gh.find_bot_comment(repo, pr_number, self.summary_marker)
post_find(r) ==
  /\ posting.runs[r].at = "find"
  /\ \/ posting' = [posting EXCEPT
          !.runs[r].at = "upsert",
          !.runs[r].existing_id = find_bot_comment(posting.comments, DEFAULT_SUMMARY_MARKER)]
     \/ posting' = [posting EXCEPT !.runs[r].at = "raised"]
  /\ OutsidePosting

\* update_issue_comment(existing_id, body) or post_issue_comment(body)
post_upsert(r) ==
  /\ posting.runs[r].at = "upsert"
  /\ \/ IF posting.runs[r].existing_id # None
        THEN posting' = [posting EXCEPT
               !.runs[r].at = "inline",
               !.comments[posting.runs[r].existing_id[1]] = SummaryBody(r)]
        ELSE posting' = [posting EXCEPT
               !.runs[r].at = "inline",
               !.comments = Append(@, SummaryBody(r))]
     \/ posting' = [posting EXCEPT !.runs[r].at = "raised"]
  /\ OutsidePosting

\* the batch review, or after its failure the individual comments, each of
\* which can fail on its own
post_inline(r) ==
  /\ posting.runs[r].at = "inline"
  /\ \/ posting' = [posting EXCEPT
          !.runs[r].at = "done",
          !.inline = @ \o ReviewComments(posting.runs[r].issues, r)]
     \/ /\ posting.runs[r].issues # << >>
        /\ \E succeeded \in SUBSET PostHashes :
             posting' = [posting EXCEPT
               !.runs[r].at = "done",
               !.inline = @ \o IndividualComments(posting.runs[r].issues, succeeded, r)]
  /\ OutsidePosting

PostNext == \E r \in PostRuns : post_find(r) \/ post_upsert(r) \/ post_inline(r)

PostSpec == PostInit /\ [][PostNext]_vars

BothPosted == \A r \in PostRuns : posting.runs[r].at = "done"

\* C30: when two runs on the same pull request have both posted, whatever
\* the order of their steps, the pull request has exactly one summary
\* comment carrying the marker and at most one inline comment per finding
\* hash.
C30_IdempotentPosting ==
  BothPosted =>
    /\ Cardinality({c \in 1..Len(posting.comments) :
                      posting.comments[c].marker = DEFAULT_SUMMARY_MARKER}) = 1
    /\ \A h \in PostHashes :
         Cardinality({k \in 1..Len(posting.inline) : posting.inline[k].finding = h}) <= 1

\* =====================================================================
\* CommentManager._resolve_position on its own (scripts/comment_manager.py)
\* =====================================================================
\* the highest new-file line a position map or a finding names
MaxResolveLine == 7

\* dict.get(key, default)
Get(d, key, default) == IF key \in DOMAIN d THEN d[key] ELSE default

\* variant: at one offset the line below is looked up before the line above
Nearby_below_first(fmap, line, offset) ==
  IF (line - offset) \in DOMAIN fmap THEN Some(fmap[line - offset])
  ELSE IF (line + offset) \in DOMAIN fmap THEN Some(fmap[line + offset])
  ELSE None

\* one turn of `for offset in range(1, 4)`: what it returns, if it returns
Nearby(fmap, line, offset) ==
  IF (line + offset) \in DOMAIN fmap THEN Some(fmap[line + offset])
  ELSE IF (line - offset) \in DOMAIN fmap THEN Some(fmap[line - offset])
  ELSE None

\* range(1, 4)
NearbyOffsets == 1..3

_resolve_position(issue, position_maps) ==
  LET fname == Get(issue, "file", "")
      line == Get(issue, "line", 0)
      fmap == Get(position_maps, fname, << >>)
      returning == {o \in NearbyOffsets : Nearby(fmap, line, o) # None}
      first == CHOOSE o \in returning : \A q \in returning : o <= q
  IN IF line \in DOMAIN fmap THEN Some(fmap[line])
     ELSE IF returning # {} THEN Nearby(fmap, line, first)
     ELSE None

\* a position map as get_diff_position_map builds it: the mapped lines in
\* ascending order, line k of them at diff position 2k (a removed line
\* between every two of them)
PositionMapOver(mapped) ==
  [l \in mapped |-> 2 * Cardinality({x \in mapped : x <= l})]

ResolveMaps ==
  {[f \in {"a.py"} |-> PositionMapOver(mapped)] : mapped \in SUBSET (1..MaxResolveLine)}

\* findings on a mapped file and on a file without a map, with a line from 0
\* to one past the last, or without a line at all
ResolveIssues ==
  {[file |-> f, line |-> l] : f \in {"a.py", "b.py"}, l \in 0..(MaxResolveLine + 1)}
    \cup {[file |-> f] : f \in {"a.py", "b.py"}}

OutsideResolving ==
  UNCHANGED <<pipeline_state, line_maps, scan, planning, parsing, review_call,
              review_run, posting, graph, post_stage>>

ResolveInit ==
  /\ PipelineIdle
  /\ post_stage = << >>
  /\ graph = << >>
  /\ line_maps = << >>
  /\ scan = << >>
  /\ planning = << >>
  /\ parsing = << >>
  /\ review_call = << >>
  /\ review_run = << >>
  /\ posting = << >>
  /\ resolving \in {[issue |-> i, position_maps |-> m, at |-> "called", pos |-> None] :
                      i \in ResolveIssues, m \in ResolveMaps}

resolve_position ==
  /\ resolving # << >>
  /\ resolving.at = "called"
  /\ resolving' = [resolving EXCEPT
                     !.at = "returned",
                     !.pos = _resolve_position(resolving.issue, resolving.position_maps)]
  /\ OutsideResolving

ResolveNext == resolve_position

ResolveSpec == ResolveInit /\ [][ResolveNext]_vars

\* the finding's line, its file's map and the distances at which a line is mapped
ResolveLine == IF "line" \in DOMAIN resolving.issue THEN resolving.issue.line ELSE 0

ResolveMap ==
  IF resolving.issue.file \in DOMAIN resolving.position_maps
  THEN resolving.position_maps[resolving.issue.file] ELSE << >>

MappedDistances ==
  {d \in 0..3 : (ResolveLine + d) \in DOMAIN ResolveMap \/ (ResolveLine - d) \in DOMAIN ResolveMap}

NearestDistance == CHOOSE d \in MappedDistances : \A q \in MappedDistances : d <= q

\* C31: _resolve_position returns the position of the finding's own line
\* when it is mapped; otherwise the position of the nearest mapped line at
\* distance 1 to 3, the line above (line + d) before the line below
\* (line - d) at the same distance; and no position when no line within
\* distance 3 is mapped, so never the position of a line farther away.
C31_ResolvePosition ==
  (resolving # << >> /\ resolving.at = "returned") =>
    IF MappedDistances = {} THEN resolving.pos = None
    ELSE resolving.pos =
           Some(ResolveMap[IF (ResolveLine + NearestDistance) \in DOMAIN ResolveMap
                           THEN ResolveLine + NearestDistance
                           ELSE ResolveLine - NearestDistance])

\* a miss on the line itself and at distance 1, with both lines at distance
\* 2 mapped: the position of line + 2 is returned
C31_Witness ==
  /\ resolving # << >>
  /\ resolving.at = "returned"
  /\ MappedDistances # {}
  /\ NearestDistance = 2
  /\ {ResolveLine + 2, ResolveLine - 2} \subseteq DOMAIN ResolveMap
  /\ resolving.pos = Some(ResolveMap[ResolveLine + 2])

\* ---------------------------------------------------------------------
\* Properties of review_plan
\* ---------------------------------------------------------------------
\* C32: the budget is not looked at inside a stage: once REVIEW_CHUNKS has
\* started, review_plan makes the reviewer call for every chunk of the plan
\* whether or not the budget expires while it runs.
C32_NoMidStageBudgetCheck ==
  (review_run # << >> /\ review_run.at \in {"summarize", "returned"}) =>
    Len(review_run.reviewed) = review_run.chunks

\* C38: a reviewer call that fails for one chunk does not fail the stage and
\* loses nothing: what review_plan holds when it leaves the chunk loop, and
\* returns, is the prescan findings of every chunk in plan order followed by
\* the findings of every chunk whose reviewer call returned, in plan order;
\* and a failed call does not end the loop (while the budget lasts the
\* reviewer is called for every chunk).
C38_PartialFailureKeepsFindings ==
  (review_run # << >> /\ review_run.at \in {"summarize", "returned"}) =>
    /\ Len(review_run.prescanned) = review_run.chunks
    /\ (~ budget_expired => Len(review_run.reviewed) = review_run.chunks)
    /\ review_run.all_issues =
         Flatten(review_run.prescanned)
           \o Flatten([k \in 1..Len(review_run.reviewed) |->
                         IF review_run.reviewed[k] = None THEN << >>
                         ELSE review_run.reviewed[k][1]])

\* the call for the first of two chunks failed, the second chunk's finding
\* and both prescan findings are returned
C38_Witness ==
  /\ review_run # << >>
  /\ review_run.at = "returned"
  /\ review_run.chunks = 2
  /\ Len(review_run.reviewed) = 2
  /\ review_run.reviewed[1] = None
  /\ review_run.reviewed[2] # None
  /\ Len(review_run.all_issues) = 3
  /\ review_run.all_issues[3].line = 2

\* =====================================================================
\* The graph variant of the pipeline: build_review_graph (agents/graph.py).
\* It is run on the outcomes a finished run() has met: attempt k of a node
\* gets from its collaborators what attempt k of the matching stage got in
\* run(), and anything at all once run() has no such attempt.
\* =====================================================================
GraphReviewState ==
  [pr_metadata |-> None, plan |-> None, skip_review |-> FALSE, linter_results |-> <<>>,
   raw_issues |-> <<>>, validated_issues |-> <<>>, summary |-> EmptySummary,
   receipt |-> EmptyReceipt, error |-> None]

\* graph.set_entry_point("fetch_pr"), before .invoke()
GraphCompiled ==
  [node |-> "fetch_pr", attempt |-> 0, state |-> GraphReviewState,
   call_log |-> <<>>, posted |-> <<>>]

\* the stage of run() whose collaborators a node calls
StageOf(node) ==
  CASE node = "fetch_pr" -> "PLAN"
    [] node = "plan_and_diff" -> "GATHER_DIFF"
    [] node = "run_linters" -> "RUN_LINTERS"
    [] node = "review_chunks" -> "REVIEW_CHUNKS"
    [] node = "critique" -> "CRITIQUE_VALIDATE"
    [] node = "post_comments" -> "POST_COMMENTS"

\* what the collaborators of a node do at its attempt k: return or raise
OutcomesAt(node, k) ==
  LET met == SelectSeq(executed, LAMBDA e : e.state = StageOf(node))
  IN IF k <= Len(met) THEN {met[k].ok} ELSE BOOLEAN

\* what commenter.post_results does at its call k
PostOutcomesAt(k) == IF k <= Len(posted) THEN {posted[k].ok} ELSE PostOutcomes

\* what planner.plan and reviewer.review_plan return
PlansMet == IF _plan # None THEN {_plan[1]} ELSE {ReviewPlan(skip) : skip \in BOOLEAN}

ReviewsMet ==
  IF \E i \in 1..Len(executed) : executed[i].state = "CRITIQUE_VALIDATE"
  THEN {[k \in 1..Len(_raw_issues) |-> Reported(k)]}
  ELSE IF calls["reviewer.review_plan"] > 0
            /\ \E i \in 1..Len(executed) :
                 executed[i].state = "REVIEW_CHUNKS" /\ executed[i].ok
  THEN {_raw_issues}
  ELSE ReviewOutputs

\* ---------------------------------------------------------------- routing
route_after_fetch(state) ==
  IF state.error # None THEN "fail_gracefully" ELSE "plan_and_diff"

\* variant: a skip plan goes on to the linters
route_after_plan_ignores_skip(state) ==
  IF state.error # None THEN "fail_gracefully" ELSE "run_linters"

route_after_plan(state) ==
  IF state.error # None THEN "fail_gracefully"
  ELSE IF state.skip_review THEN "post_comments"
  ELSE "run_linters"

route_after_linters(state, expired) ==
  IF state.error # None THEN "fail_gracefully"
  ELSE IF expired THEN "post_comments"
  ELSE "review_chunks"

route_after_review(state) ==
  IF state.error # None THEN "fail_gracefully" ELSE "critique"

route_after_critique(state) ==
  IF state.error # None THEN "fail_gracefully" ELSE "post_comments"

route_after_post(state) ==
  IF state.error # None THEN "fail_gracefully" ELSE "summarize"

Route(node, state, expired) ==
  CASE node = "fetch_pr" -> route_after_fetch(state)
    [] node = "plan_and_diff" -> route_after_plan(state)
    [] node = "run_linters" -> route_after_linters(state, expired)
    [] node = "review_chunks" -> route_after_review(state)
    [] node = "critique" -> route_after_critique(state)
    [] node = "post_comments" -> route_after_post(state)

\* ----------------------------------------------------------------- _retry
\* fn(state) returned: its dict is merged into the state and the edge taken
NodeReturned(g, state, names, expired) ==
  [g EXCEPT !.state = state, !.call_log = @ \o names, !.attempt = 0,
            !.node = Route(g.node, state, expired)]

\* fn(state) raised: `if attempt < max_retries` the loop goes on, else the
\* error is returned and the edge taken
NodeRaised(g, names, expired) ==
  IF g.attempt < max_retries
  THEN [g EXCEPT !.call_log = @ \o names, !.attempt = @ + 1]
  ELSE LET state == [g.state EXCEPT !.error = Some(<<g.node, StageOf(g.node)>>)]
       IN [g EXCEPT !.state = state, !.call_log = @ \o names, !.attempt = 0,
                    !.node = Route(g.node, state, expired)]

OutsideGraph ==
  UNCHANGED <<pipeline_state, line_maps, scan, planning, parsing, review_call,
              review_run, posting, resolving, post_stage>>

\* the graph is invoked on what a finished run() has met
AtNode(node) ==
  /\ pc \in {"returned", "raised"}
  /\ graph.node = node

\* ------------------------------------------------------------------ nodes
graph_fetch_pr ==
  /\ AtNode("fetch_pr")
  /\ \E ok \in OutcomesAt("fetch_pr", graph.attempt + 1) :
       graph' = IF ok
                THEN NodeReturned(graph, [graph.state EXCEPT !.pr_metadata = Some(PRMetadata)],
                                  <<"gh.get_pr_metadata">>, budget_expired)
                ELSE NodeRaised(graph, <<"gh.get_pr_metadata">>, budget_expired)
  /\ OutsideGraph

graph_plan_and_diff ==
  /\ AtNode("plan_and_diff")
  /\ \E ok \in OutcomesAt("plan_and_diff", graph.attempt + 1) :
       IF ok
       THEN \E planned \in PlansMet :
              graph' = NodeReturned(graph,
                         [graph.state EXCEPT
                            !.plan = Some(planned),
                            !.skip_review = planned.skip_review,
                            !.summary = IF planned.skip_review THEN SkipSummary ELSE @],
                         <<"gh.get_unified_diff", "planner.plan">>, budget_expired)
       ELSE graph' = NodeRaised(graph, <<"gh.get_unified_diff">>, budget_expired)
  /\ OutsideGraph

graph_run_linters ==
  /\ AtNode("run_linters")
  /\ graph' = NodeReturned(graph, [graph.state EXCEPT !.linter_results = <<"lint">>],
                           <<"run_all_linters">>, budget_expired)
  /\ OutsideGraph

graph_review_chunks ==
  /\ AtNode("review_chunks")
  /\ \E ok \in OutcomesAt("review_chunks", graph.attempt + 1) :
       IF ok
       THEN \E all_issues \in ReviewsMet :
              graph' = NodeReturned(graph,
                         [graph.state EXCEPT !.raw_issues = all_issues,
                                             !.summary = ReviewSummary(all_issues)],
                         <<"reviewer.review_plan">>, budget_expired)
       ELSE graph' = NodeRaised(graph, <<"reviewer.review_plan">>, budget_expired)
  /\ OutsideGraph

graph_critique ==
  /\ AtNode("critique")
  /\ \E ok \in OutcomesAt("critique", graph.attempt + 1) :
       graph' =
         IF ok
         THEN NodeReturned(graph,
                [graph.state EXCEPT !.validated_issues = critique(graph.state.raw_issues),
                                    !.raw_issues = HashesAttached(@)],
                <<"critic.critique", "critic.detect_contradictions">>, budget_expired)
         ELSE NodeRaised([graph EXCEPT !.state.raw_issues = HashesAttached(@)],
                         <<"critic.critique", "critic.detect_contradictions">>,
                         budget_expired)
  /\ OutsideGraph

graph_post_comments ==
  /\ AtNode("post_comments")
  /\ \E ok \in PostOutcomesAt(Len(graph.posted) + 1) :
       LET sent == [issues |-> graph.state.validated_issues,
                    summary_text |-> graph.state.summary, ok |-> ok]
           g == [graph EXCEPT !.posted = Append(@, sent)]
       IN graph' = IF ok
                   THEN NodeReturned(g, [g.state EXCEPT
                                           !.receipt = Receipt(g.state.validated_issues)],
                                     <<"commenter.post_results">>, budget_expired)
                   ELSE NodeRaised(g, <<"commenter.post_results">>, budget_expired)
  /\ OutsideGraph

\* summarize_node only logs; graph.add_edge("summarize", END)
graph_summarize ==
  /\ AtNode("summarize")
  /\ graph' = [graph EXCEPT !.node = "END"]
  /\ OutsideGraph

\* fail_gracefully_node; graph.add_edge("fail_gracefully", END)
graph_fail_gracefully ==
  /\ AtNode("fail_gracefully")
  /\ IF graph.state.pr_metadata # None
     THEN \E ok \in PostOutcomesAt(Len(graph.posted) + 1) :
            graph' = [graph EXCEPT
                        !.posted = Append(@, [issues |-> <<>>,
                                              summary_text |-> FailureSummary(graph.state.error[1]),
                                              ok |-> ok]),
                        !.call_log = Append(@, "commenter.post_results"),
                        !.node = "END"]
     ELSE graph' = [graph EXCEPT !.node = "END"]
  /\ OutsideGraph

GraphInit ==
  /\ dry_run \in BOOLEAN
  /\ budget_expired = FALSE
  /\ RunConstructed
  /\ critic_policy = DefaultPolicy
  /\ CriticConstructed
  /\ critic_pc = "idle"
  /\ ChunkerIdle
  /\ line_maps = << >>
  /\ scan = << >>
  /\ planning = << >>
  /\ parsing = << >>
  /\ review_call = << >>
  /\ review_run = << >>
  /\ posting = << >>
  /\ resolving = << >>
  /\ post_stage = << >>
  /\ graph = GraphCompiled

GraphNext ==
  \/ BudgetJump
  \/ _do_plan
  \/ _do_gather_diff
  \/ _do_run_linters
  \/ _do_review_chunks
  \/ _do_critique
  \/ _do_post_comments
  \/ _do_summarize
  \/ _do_done
  \/ LoopExit
  \/ _fail_gracefully
  \/ graph_fetch_pr
  \/ graph_plan_and_diff
  \/ graph_run_linters
  \/ graph_review_chunks
  \/ graph_critique
  \/ graph_post_comments
  \/ graph_summarize
  \/ graph_fail_gracefully

GraphSpec == GraphInit /\ [][GraphNext]_vars

\* a call of commenter.post_results as it shows on the pull request: the
\* findings, what kind of summary, and whether the call returned
Notice(p) == [issues |-> p.issues, kind |-> p.summary_text.kind, ok |-> p.ok]

Notices(ps) == [k \in 1..Len(ps) |-> Notice(ps[k])]

\* C33: when the budget never expires, run() and the graph, given the same
\* stage outcomes (a skip plan, stages failing up to or beyond the retry
\* bound), have made the same collaborator calls in the same order and have
\* ended the same way: the same findings and summary posted, or the failure
\* notice posted.
C33_GraphMatchesLoop ==
  (graph # << >> /\ graph.node = "END" /\ ~ budget_expired) =>
    /\ graph.call_log = call_log
    /\ Notices(graph.posted) = Notices(posted)
    /\ (graph.state.error # None) <=> (_state = "FAIL_GRACEFULLY")

\* both have retried the review, met a failing critique beyond the retry
\* bound and posted the failure notice
C33_Witness ==
  /\ graph # << >>
  /\ graph.node = "END"
  /\ ~ budget_expired
  /\ graph.state.error # None
  /\ Len(graph.posted) = 1
  /\ calls["reviewer.review_plan"] = 2
  /\ Len(graph.call_log) = Len(call_log)

\* ---------------------------------------------------------------------
\* Retry and budget in run()
\* ---------------------------------------------------------------------
RetriedStages == {"PLAN", "GATHER_DIFF", "RUN_LINTERS", "REVIEW_CHUNKS", "CRITIQUE_VALIDATE"}

\* handler invocation i failed, left a retry open, and the budget had
\* expired when it ended (so it is expired when the loop re-enters the stage)
FailedIntoExpiry(i) ==
  /\ executed[i].state \in RetriedStages
  /\ ~ executed[i].ok
  /\ executed[i].expired
  /\ Cardinality({j \in 1..i : executed[j].state = executed[i].state /\ ~ executed[j].ok})
       <= max_retries

\* C34: a stage that failed with a retry left is not executed again once the
\* budget has expired: only POST_COMMENTS and what follows it run after it,
\* FAIL_GRACEFULLY is not entered on its behalf, and the failure does not
\* show in the outcome (with posting succeeding the run ends in DONE).
C34_ExpiredBudgetAbandonsRetry ==
  \A i \in 1..Len(executed) :
    FailedIntoExpiry(i) =>
      /\ \A j \in (i + 1)..Len(executed) : executed[j].state \in NoJumpStates
      /\ (pc = "fail" => exc # executed[i].state)
      /\ (Returned /\ (\A k \in 1..Len(posted) : posted[k].ok)) => final_state = "DONE"

\* ---------------------------------------------------------------------
\* Properties of the linter stage
\* ---------------------------------------------------------------------
\* C35: RUN_LINTERS runs exactly the tools the plan selected: no tool that
\* no detected language implies, and none at all for a plan selecting none.
C35_OnlySelectedLintersRun ==
  (planning # << >> /\ planning.tools_run # None) =>
    {planning.tools_run[1][k] : k \in 1..Len(planning.tools_run[1])}
      = {planning.result[1].linters_to_run[k] :
           k \in 1..Len(planning.result[1].linters_to_run)}

\* =====================================================================
\* POST_COMMENTS of one run: CommentAgent.post_results called by
\* _do_post_comments, retried by run(), and called once more by
\* _fail_gracefully; one step per call to the hosting API
\* =====================================================================
\* validated findings: validate_issue wants the key "file" but not a value,
\* so a finding can reach the commenter with an empty path
StageFindings ==
  {[file |-> "a.py", line |-> 1, _hash |-> "h1"],
   [file |-> "b.py", line |-> 2, _hash |-> "h2"],
   [file |-> "", line |-> 3, _hash |-> "h3"]}

StageIssueLists ==
  {l \in SeqsUpTo(StageFindings, MaxPostIssues) :
     \A p \in 1..Len(l) : \A q \in 1..Len(l) : p # q => l[p] # l[q]}

\* if not path or not isinstance(line, int): continue
Postable(iss) == iss.file # ""

\* _build_review_comments: one payload per finding that has a path and a line
_build_review_comments(issues) ==
  LET kept == SelectSeq(issues, Postable)
  IN [k \in 1..Len(kept) |->
        [path |-> kept[k].file, line |-> kept[k].line, finding |-> kept[k]._hash]]

\* issues[: self.max_inline]
InlineIssues(p) ==
  IF Len(p.issues) <= p.max_inline THEN p.issues ELSE SubSeq(p.issues, 1, p.max_inline)

ApiCalled(p, name, ok) == [p EXCEPT !.api = Append(@, [call |-> name, ok |-> ok])]

\* post_results returned: the stage, or the notice, is over
StageReturned(p, receipt) == [p EXCEPT !.at = "end", !.receipt = Some(receipt)]

\* post_results raised.  In _do_post_comments the except branch of run()
\* counts the failure and either stays on POST_COMMENTS or calls
\* _fail_gracefully, which posts the notice with no findings; in
\* _fail_gracefully the exception is logged and dropped.
StageRaised(p) ==
  IF p.phase = "notice" THEN [p EXCEPT !.at = "end"]
  ELSE IF ShouldRetry(p.retry_count + 1)
  THEN [p EXCEPT !.retry_count = @ + 1, !.at = "call"]
  ELSE [p EXCEPT !.retry_count = @ + 1, !.at = "call", !.phase = "notice",
                 !.issues = << >>, !.summary_text = "failure"]

\* variant: a failed batch review is passed on to the caller
ReviewFailed_raises(p) == StageRaised(p)

\* except Exception: ... self._post_individual_comments(...)
ReviewFailed(p) == [p EXCEPT !.at = "individual"]

OutsidePostStage ==
  UNCHANGED <<pipeline_state, line_maps, scan, planning, parsing, review_call,
              review_run, posting, resolving, graph>>

PostStageInit ==
  /\ PipelineIdle
  /\ line_maps = << >>
  /\ scan = << >>
  /\ planning = << >>
  /\ parsing = << >>
  /\ review_call = << >>
  /\ review_run = << >>
  /\ posting = << >>
  /\ resolving = << >>
  /\ graph = << >>
  /\ post_stage \in
       {[dry_run |-> d, max_inline |-> m, phase |-> ph,
         issues |-> IF ph = "notice" THEN << >> ELSE l,
         summary_text |-> IF ph = "notice" THEN "failure" ELSE "review",
         before |-> cs, comments |-> cs, inline |-> << >>, api |-> << >>,
         at |-> "call", existing_id |-> None, retry_count |-> 0, receipt |-> None] :
          d \in BOOLEAN, m \in {1, max_inline}, ph \in {"stage", "notice"},
          l \in StageIssueLists,
          cs \in {<< >>, <<HumanComment>>, <<HumanComment, SummaryBody("earlier")>>}}

\* dry-run: _upsert_summary returns "dry-run" and the findings become
\* placeholders; no call leaves the process
stage_dry_run ==
  /\ post_stage.at = "call"
  /\ post_stage.dry_run
  /\ post_stage' = StageReturned(post_stage,
       [summary_id |-> "dry-run",
        inline_ids |-> [k \in 1..Len(InlineIssues(post_stage)) |->
                          [file |-> InlineIssues(post_stage)[k].file,
                           line |-> InlineIssues(post_stage)[k].line, dry_run |-> TRUE]],
        dry_run |-> TRUE,
        total_issues |-> Len(post_stage.issues)])
  /\ OutsidePostStage

\* existing_id = self.gh.find_bot_comment(repo, pr_number, self.summary_marker)
stage_find ==
  /\ post_stage.at = "call"
  /\ ~ post_stage.dry_run
  /\ \/ post_stage' = [ApiCalled(post_stage, "find_bot_comment", TRUE) EXCEPT
                         !.at = "upsert",
                         !.existing_id = find_bot_comment(post_stage.comments,
                                                          DEFAULT_SUMMARY_MARKER)]
     \/ post_stage' = StageRaised(ApiCalled(post_stage, "find_bot_comment", FALSE))
  /\ OutsidePostStage

\* update_issue_comment(existing_id, body) or post_issue_comment(body)
stage_upsert ==
  /\ post_stage.at = "upsert"
  /\ LET write == IF post_stage.existing_id # None
                  THEN "update_issue_comment" ELSE "post_issue_comment"
     IN \/ post_stage' =
             [ApiCalled(post_stage, write, TRUE) EXCEPT
                !.at = "inline",
                !.comments = IF post_stage.existing_id # None
                             THEN [@ EXCEPT ![post_stage.existing_id[1]] =
                                              SummaryBody(post_stage.summary_text)]
                             ELSE Append(@, SummaryBody(post_stage.summary_text))]
        \/ post_stage' = StageRaised(ApiCalled(post_stage, write, FALSE))
  /\ OutsidePostStage

\* the batch review: nothing to post, or post_review returns, or it raises
stage_review ==
  /\ post_stage.at = "inline"
  /\ LET review_comments == _build_review_comments(InlineIssues(post_stage))
         receipt == [summary_id |-> "cid", inline_ids |-> << >>, dry_run |-> FALSE,
                     total_issues |-> Len(post_stage.issues)]
     IN IF review_comments = << >>
        THEN post_stage' = StageReturned(post_stage, receipt)
        ELSE \/ post_stage' =
                  StageReturned(
                    [ApiCalled(post_stage, "post_review", TRUE) EXCEPT
                       !.inline = @ \o [k \in 1..Len(review_comments) |->
                                          [finding |-> review_comments[k].finding,
                                           via |-> "review"]]],
                    [receipt EXCEPT !.inline_ids = <<"review_id">>])
             \/ post_stage' = ReviewFailed(ApiCalled(post_stage, "post_review", FALSE))
  /\ OutsidePostStage

\* _post_individual_comments: one call per finding with a path, each of
\* which can fail on its own
stage_individual ==
  /\ post_stage.at = "individual"
  /\ LET sent == SelectSeq(InlineIssues(post_stage), Postable)
     IN \E succeeded \in SUBSET (1..Len(sent)) :
          LET created == SelectSeq([k \in 1..Len(sent) |->
                                      [finding |-> sent[k]._hash, via |-> "individual",
                                       ok |-> k \in succeeded]],
                                   LAMBDA c : c.ok)
          IN post_stage' =
               StageReturned(
                 [post_stage EXCEPT
                    !.api = @ \o [k \in 1..Len(sent) |->
                                    [call |-> "post_inline_comment_basic",
                                     ok |-> k \in succeeded]],
                    !.inline = @ \o [k \in 1..Len(created) |->
                                       [finding |-> created[k].finding, via |-> "individual"]]],
                 [summary_id |-> "cid",
                  inline_ids |-> [k \in 1..Len(created) |-> "cid"],
                  dry_run |-> FALSE, total_issues |-> Len(post_stage.issues)])
  /\ OutsidePostStage

PostStageNext ==
  stage_dry_run \/ stage_find \/ stage_upsert \/ stage_review \/ stage_individual

PostStageSpec == PostStageInit /\ [][PostStageNext]_vars

InlineCalls == {"post_review", "post_inline_comment_basic"}

C39_DryRunPostsNothing ==
  (post_stage # << >> /\ post_stage.dry_run) =>
    /\ post_stage.api = << >>
    /\ post_stage.comments = post_stage.before
    /\ post_stage.inline = << >>
    /\ post_stage.at = "end" =>
         /\ post_stage.receipt # None
         /\ post_stage.receipt[1].dry_run
         /\ post_stage.receipt[1].summary_id = "dry-run"
         /\ Len(post_stage.receipt[1].inline_ids)
              = Cardinality({k \in 1..Len(InlineIssues(post_stage)) :
                               InlineIssues(post_stage)[k].file # ""})

\* ---------------------------------------------------------------------
\* Retries and the findings held by run()
\* ---------------------------------------------------------------------
ReviewerReturned ==
  /\ calls["reviewer.review_plan"] > 0
  /\ \E i \in 1..Len(executed) : executed[i].state = "REVIEW_CHUNKS" /\ executed[i].ok

CriticCalled == calls["critic.critique"] > 0

\* C37: retried stages do not pile findings up.  However many attempts of
\* REVIEW_CHUNKS and CRITIQUE_VALIDATE have failed, the raw findings held
\* are nothing until review_plan has returned and then exactly what that one
\* call returned, the validated findings are nothing until the critic has
\* been called and then exactly critique of those raw findings, and no two
\* validated findings are the same logical finding (share a hash).
C37_RetryKeepsFindingsOnce ==
  /\ ~ ReviewerReturned => _raw_issues = <<>>
  /\ ReviewerReturned =>
       \E out \in ReviewOutputs :
         /\ _raw_issues = IF CriticCalled THEN HashesAttached(out) ELSE out
         /\ _validated_issues = IF CriticCalled THEN critique(out) ELSE <<>>
  /\ \A p \in 1..Len(_validated_issues) : \A q \in 1..Len(_validated_issues) :
       p # q => _validated_issues[p]._hash # _validated_issues[q]._hash

\* the reviewer failed once and then returned two findings, the critic
\* stage failed once and then succeeded
C37_Witness ==
  /\ FailedAttempts("REVIEW_CHUNKS") >= 1
  /\ FailedAttempts("CRITIQUE_VALIDATE") >= 1
  /\ EverSucceeded("CRITIQUE_VALIDATE")
  /\ Len(_raw_issues) = 2
  /\ Len(_validated_issues) >= 1

====
